---- MODULE Spec2Model ----
(***************************************************************************)
(* A model of ppu-paddle-ocr: the PaddleOcrService life cycle, the         *)
(* recognize() pipeline (DetectionService.run, RecognitionService.run,     *)
(* processRecognition), the CTC greedy decoder, the skew-angle consensus   *)
(* and the box geometry of the detection post-processing.                  *)
(*                                                                         *)
(* JavaScript strings are TLA+ strings (\o concatenates, Len counts the    *)
(* characters); a Float32Array is a sequence indexed from 1, so the        *)
(* element the code reads at [i] is read here at [i + 1].                  *)
(***************************************************************************)
EXTENDS Integers, Sequences, FiniteSets, TLC

VARIABLES
    \* ---- RecognitionService.decodeResults / ctcGreedyDecode
    logits,          \* outputTensor.data, row-major [sequenceLength, numClasses]
    sequenceLength,  \* outputTensor.dims[1]
    numClasses,      \* outputTensor.dims[2]
    charDict,        \* options.charactersDictionary
    decodedText,     \* the string decodeResults returned
    ctcPc,           \* "idle" | "ready" | "done"
    \* ---- DetectionService.calculateConsensusAngle
    allAngles,       \* the measurements {angle, weight} of the three methods
    consensusAngle,  \* the angle returned, a fraction num / den of a degree
    skewPc,          \* "idle" | "ready" | "done"
    \* ---- DetectionService.preprocessDetection / postprocessDetection
    originalWidth,   \* canvas.width
    originalHeight,  \* canvas.height
    maxSideLength,   \* options.maxSideLength
    contours,        \* the bounding rects of the contours found in the map
    input,           \* the PreprocessDetectionResult (without the tensor)
    paddedRects,     \* what applyPaddingToRect returned, per contour kept by area
    finalBoxes,      \* what convertToOriginalCoordinates returned, per such contour
    boxes,           \* what extractBoxesFromContours returned
    geomPc,          \* "idle" | "preprocess" | "postprocess" | "done"
    \* ---- PaddleOcrService: the singleton and its inference sessions
    instance,           \* PaddleOcrService.instance !== null
    detectionSession,   \* instance.detectionSession: 0 (null) or a session
    recognitionSession, \* instance.recognitionSession: 0 (null) or a session
    dictionary,         \* options.recognition.charactersDictionary: 0 ([]) or
                        \* the recognition session it was loaded along with
    sessions,           \* every InferenceSession created: "open" | "released"
    callPc,             \* per caller: where its pending call awaits
    callOp,             \* per caller: the static or instance method it called
    callTarget,         \* per caller: the session whose release() it awaits
    callResult,         \* per caller: how its last call settled
    \* ---- PaddleOcrService.recognize and the two services' run
    pc,              \* where the call is: "idle" | "initRuntime" | "prepareCanvas"
                     \* | "skewInference" | "mainInference" | "detected"
                     \* | "recognizing" | "recognized" | "done" | "failed"
    entry,           \* the method called: "recognize" | "run" (RecognitionService)
    userAutoDeskew,  \* options.detection.autoDeskew as given to the constructor
    flatten,         \* options?.flatten of the recognize call
    engineCalls,     \* how often the detection session has run
    detectionThrew,  \* the detection session's run rejected
    skewAngle,       \* what calculateSkewAngle returned, a fraction
    canvasToProcess, \* the canvas detection works on: "image" | "rotated"
    detection,       \* the boxes handed to RecognitionService.run
    canvasFailed,    \* prepareCanvas rejected in RecognitionService.run
    cropCanvas,      \* the canvas RecognitionService.run crops the boxes from:
                     \* "none" (not yet) | "image" | "rotated"
    validBoxes,      \* what filterValidBoxes returned: {box, index}
    recOutcomes,     \* per detection box, what recognizing its crop does
    taskPc,          \* per processing task: "inference" | "settled"
    values,          \* the array Promise.all fills
    completionOrder, \* the tasks in the order their inference settled
    recognition,     \* what RecognitionService.run returned
    processed,       \* what processRecognition returned
    result,          \* what recognize returned
    skewOutput,      \* the skew pass' inference: "none" | "tensor" | "missing" | "threw"
    detectionExit,   \* how DetectionService.run returned: "none" (not yet)
                     \* | "canvasError" | "inferenceError" | "noOutput" | "boxes"
    detectionSteps,  \* the steps of DetectionService.run so far: {step, canvas}
    \* ---- the order of boxes: detection, recognition
    contourBoxes,    \* the final boxes in the order the contours are iterated
    detectedBoxes,   \* the boxes in the order DetectionService returns them
    legacyBoxes,     \* the boxes in the order the former postprocessDetection does
    sortedResults,   \* the results in the order RecognitionService returns them
    orderPc,         \* "idle" | "contours" | "detected" | "legacy" | "done"
    \* ---- processRecognition on its own
    lineItems,       \* the recognition list processRecognition is given
    lineResult,      \* what processRecognition returned
    linePc,          \* "idle" | "ready" | "done"
    \* ---- calculateSkewAngle on its own
    passOutput,      \* whether the inference of the pass gave an output tensor
    passContours,    \* the rects of the contours of the probability map
    passAngles,      \* the measurements the three methods would give
    passResult,      \* what calculateSkewAngle returned
    passPc           \* "idle" | "ready" | "done"

ctcVars == <<logits, sequenceLength, numClasses, charDict, decodedText, ctcPc>>
skewVars == <<allAngles, consensusAngle, skewPc>>
geomVars == <<originalWidth, originalHeight, maxSideLength, contours, input,
              paddedRects, finalBoxes, boxes, geomPc>>

lifeVars == <<instance, detectionSession, recognitionSession, dictionary,
              sessions, callPc, callOp, callTarget, callResult>>

pipeVars == <<pc, entry, userAutoDeskew, flatten, engineCalls, detectionThrew,
              skewAngle, canvasToProcess, detection, canvasFailed, cropCanvas,
              validBoxes,
              recOutcomes, taskPc, values, completionOrder, recognition,
              processed, result, skewOutput, detectionExit, detectionSteps>>

orderVars == <<contourBoxes, detectedBoxes, legacyBoxes, sortedResults, orderPc>>

lineVars == <<lineItems, lineResult, linePc>>

passVars == <<passOutput, passContours, passAngles, passResult, passPc>>

vars == <<ctcVars, skewVars, geomVars, lifeVars, pipeVars, orderVars, lineVars,
          passVars>>

(***************************************************************************)
(* Small helpers                                                           *)
(***************************************************************************)
Max(a, b) == IF a >= b THEN a ELSE b
Min(a, b) == IF a <= b THEN a ELSE b
Abs(a) == IF a < 0 THEN -a ELSE a

\* Math.round of the fraction p / q (q > 0): the nearest integer, halves up.
Round(p, q) == (2 * p + q) \div (2 * q)

\* Math.ceil of the fraction p / q (q > 0).
Ceil(p, q) == -((-p) \div q)

\* Fractions num / den with den > 0, compared by cross-multiplication.
Frac(n, d) == [num |-> n, den |-> d]
FracLeq(a, b) == a.num * b.den <= b.num * a.den
FracEq(a, b) == a.num * b.den = b.num * a.den

(***************************************************************************)
(* RecognitionService: CTC greedy decoding                                 *)
(***************************************************************************)
BLANK_INDEX == 0
UNK_TOKEN == "<unk>"

\* Bounds of the decoder's inputs.
MaxSeqLen == 3
MaxClasses == 3
LogitValues == {0, 1}
Dictionaries == { <<"_", "a">>, <<"_", "a", "b">>, <<"_", "a", "<unk>">> }

\* findMaxProbabilityClass: the loop over c, keeping the first maximum
\* (strict >), starting from maxProb = -Infinity and maxIndex = 0.
RECURSIVE FindMaxLoop(_, _, _, _, _)
FindMaxLoop(lg, timestep, nc, c, best) ==
    IF c >= nc THEN best
    ELSE LET prob == lg[timestep * nc + c + 1]
         IN FindMaxLoop(lg, timestep, nc, c + 1,
                IF best.isNegInf \/ prob > best.value
                THEN [value |-> prob, index |-> c, isNegInf |-> FALSE]
                ELSE best)

findMaxProbabilityClass(lg, timestep, nc) ==
    FindMaxLoop(lg, timestep, nc, 0,
                [value |-> 0, index |-> 0, isNegInf |-> TRUE])

isValidDictionaryIndex(index, dict) == index >= 0 /\ index < Len(dict)

\* A mutant: every dictionary entry is emitted as it is.
AppendVerbatim(index, dict, text) == text \o dict[index + 1]

\* appendCharacterToText: the text after appendFn ran (or did not).
appendCharacterToText(index, dict, text) ==
    LET char == dict[index + 1]
    IN IF index = Len(dict) - 1
       THEN (IF char = UNK_TOKEN THEN text ELSE text \o " ")
       ELSE text \o char

\* Mutants of the skip condition of ctcGreedyDecode.
ShouldSkipNoRepeat(predictedClassIndex, lastCharIndex) ==
    predictedClassIndex = BLANK_INDEX

ShouldSkipNoBlank(predictedClassIndex, lastCharIndex) ==
    predictedClassIndex = lastCharIndex

\* The condition under which ctcGreedyDecode emits nothing for a timestep.
ShouldSkip(predictedClassIndex, lastCharIndex) ==
    \/ predictedClassIndex = BLANK_INDEX
    \/ predictedClassIndex = lastCharIndex

\* A mutant: a skipped timestep leaves lastCharIndex as it was.
LastKeptAfterSkip(predictedClassIndex, lastCharIndex) == lastCharIndex

\* lastCharIndex = predictedClassIndex before the continue.
LastAfterSkip(predictedClassIndex, lastCharIndex) == predictedClassIndex

\* The body of ctcGreedyDecode's loop, from timestep t on.
RECURSIVE CtcLoop(_, _, _, _, _, _, _)
CtcLoop(lg, seqLen, nc, dict, t, text, lastCharIndex) ==
    IF t >= seqLen THEN text
    ELSE LET predictedClassIndex == findMaxProbabilityClass(lg, t, nc).index
         IN IF ShouldSkip(predictedClassIndex, lastCharIndex)
            THEN CtcLoop(lg, seqLen, nc, dict, t + 1, text,
                         LastAfterSkip(predictedClassIndex, lastCharIndex))
            ELSE CtcLoop(lg, seqLen, nc, dict, t + 1,
                         IF isValidDictionaryIndex(predictedClassIndex, dict)
                         THEN appendCharacterToText(predictedClassIndex, dict, text)
                         ELSE text,
                         predictedClassIndex)

ctcGreedyDecode(lg, seqLen, nc, dict) ==
    CtcLoop(lg, seqLen, nc, dict, 0, "", -1)

CtcIdle ==
    /\ logits = <<>>
    /\ sequenceLength = 0
    /\ numClasses = 0
    /\ charDict = <<>>
    /\ decodedText = ""
    /\ ctcPc = "idle"

\* An output tensor of shape [1, sequenceLength, numClasses] and a dictionary.
CtcInit ==
    /\ sequenceLength \in 0..MaxSeqLen
    /\ numClasses \in 2..MaxClasses
    /\ logits \in [1..(sequenceLength * numClasses) -> LogitValues]
    /\ charDict \in Dictionaries
    /\ decodedText = ""
    /\ ctcPc = "ready"

\* decodeResults: reads the tensor's dims and decodes.
DecodeResults ==
    /\ ctcPc = "ready"
    /\ decodedText' = ctcGreedyDecode(logits, sequenceLength, numClasses, charDict)
    /\ ctcPc' = "done"
    /\ UNCHANGED <<logits, sequenceLength, numClasses, charDict>>
    /\ UNCHANGED <<skewVars, geomVars, lifeVars, pipeVars, orderVars, lineVars, passVars>>

(***************************************************************************)
(* Array.prototype.sort as the code uses it: on arrays this short V8 finds *)
(* the leading run (reversing a strictly descending one) and inserts the   *)
(* remaining elements by binary insertion.  The comparator is named by     *)
(* kind: "angle" is (a, b) => a.angle - b.angle of calculateConsensusAngle,*)
(* "readingOrder" is the comparator of sortResultsByReadingOrder.          *)
(***************************************************************************)
\* A mutant: the boxes go top to bottom whether on one line or not.
CompareByYOnly(a, b) == a.box.y - b.box.y

\* A mutant: the results are compared by y, and by x where y is equal.
CompareByYThenX(a, b) ==
    IF a.box.y # b.box.y THEN a.box.y - b.box.y ELSE a.box.x - b.box.x

\* Boxes roughly on one line (|yA - yB| < (hA + hB) / 4, compared times
\* four) go left to right, the others top to bottom.
CompareReadingOrder(a, b) ==
    LET boxA == a.box
        boxB == b.box
    IN IF 4 * Abs(boxA.y - boxB.y) < boxA.height + boxB.height
       THEN boxA.x - boxB.x
       ELSE boxA.y - boxB.y

CompareAngle(a, b) == a.angle - b.angle

\* The comparator the former PaddleOcrService.postprocessDetection sorts its
\* detected boxes with.
CompareDetectedBoxes(a, b) ==
    IF 4 * Abs(a.y - b.y) < a.height + b.height
    THEN a.x - b.x
    ELSE a.y - b.y

Compare(kind, a, b) ==
    IF kind = "angle" THEN CompareAngle(a, b)
    ELSE IF kind = "detectedBoxes" THEN CompareDetectedBoxes(a, b)
    ELSE CompareReadingOrder(a, b)

\* The 1-based end of the run that starts at s[1], s[2].
RECURSIVE RunEnd(_, _, _, _)
RunEnd(s, kind, idx, isDescending) ==
    IF idx > Len(s) THEN Len(s)
    ELSE LET order == Compare(kind, s[idx], s[idx - 1])
         IN IF isDescending
            THEN (IF order >= 0 THEN idx - 1 ELSE RunEnd(s, kind, idx + 1, isDescending))
            ELSE (IF order < 0 THEN idx - 1 ELSE RunEnd(s, kind, idx + 1, isDescending))

Reverse(s) == [i \in 1..Len(s) |-> s[Len(s) + 1 - i]]

\* The 0-based insertion point of pivot in s[left .. right - 1].
RECURSIVE BinarySearch(_, _, _, _, _)
BinarySearch(s, kind, pivot, left, right) ==
    IF left >= right THEN left
    ELSE LET mid == left + ((right - left) \div 2)
         IN IF Compare(kind, pivot, s[mid + 1]) < 0
            THEN BinarySearch(s, kind, pivot, left, mid)
            ELSE BinarySearch(s, kind, pivot, mid + 1, right)

\* Inserts s[start], s[start + 1], ... into the sorted prefix before them.
RECURSIVE BinaryInsertionSort(_, _, _)
BinaryInsertionSort(s, kind, start) ==
    IF start > Len(s) THEN s
    ELSE LET pivot == s[start]
             left == BinarySearch(s, kind, pivot, 0, start - 1)
             moved == SubSeq(s, 1, left) \o <<pivot>> \o SubSeq(s, left + 1, start - 1)
                          \o SubSeq(s, start + 1, Len(s))
         IN BinaryInsertionSort(moved, kind, start + 1)

Sort(s, kind) ==
    IF Len(s) < 2 THEN s
    ELSE LET isDescending == Compare(kind, s[2], s[1]) < 0
             runLength == RunEnd(s, kind, 3, isDescending)
             run == IF isDescending
                    THEN Reverse(SubSeq(s, 1, runLength)) \o SubSeq(s, runLength + 1, Len(s))
                    ELSE s
         IN BinaryInsertionSort(run, kind, runLength + 1)

(***************************************************************************)
(* DetectionService: the skew-angle consensus                              *)
(***************************************************************************)
minAngle == -20
maxAngle == 20

\* Bounds of the consensus' inputs: angles in degrees, weights >= 0.
MaxMeasurements == 3
AngleSamples == {-30, -5, 0, 5, 50}
WeightSamples == {0, 1, 100}

RECURSIVE SumWeights(_)
SumWeights(s) == IF s = <<>> THEN 0 ELSE Head(s).weight + SumWeights(Tail(s))

RECURSIVE SumAngles(_)
SumAngles(s) == IF s = <<>> THEN 0 ELSE Head(s).angle + SumAngles(Tail(s))

RECURSIVE SumWeightedAngles(_)
SumWeightedAngles(s) ==
    IF s = <<>> THEN 0 ELSE Head(s).angle * Head(s).weight + SumWeightedAngles(Tail(s))

\* Math.max(lo, Math.min(hi, f)) of a fraction f.
ClampFrac(f, lo, hi) ==
    IF FracLeq(f, Frac(lo, 1)) THEN Frac(lo, 1)
    ELSE IF FracLeq(Frac(hi, 1), f) THEN Frac(hi, 1)
    ELSE f

\* A mutant: only the IQR bounds filter, not the [lo, hi] range.
FilteredByIqrOnly(angles, lo, hi) ==
    LET sortedAngles == Sort(angles, "angle")
        q1 == sortedAngles[(Len(angles) \div 4) + 1].angle
        q3 == sortedAngles[((3 * Len(angles)) \div 4) + 1].angle
        iqr == q3 - q1
    IN SelectSeq(angles, LAMBDA a :
            /\ 2 * a.angle >= 2 * q1 - 3 * iqr
            /\ 2 * a.angle <= 2 * q3 + 3 * iqr)

\* The measurements that survive the IQR bounds (q1 - 1.5 iqr, q3 + 1.5 iqr,
\* compared doubled) and the [lo, hi] range.
FilteredAngles(angles, lo, hi) ==
    LET sortedAngles == Sort(angles, "angle")
        q1 == sortedAngles[(Len(angles) \div 4) + 1].angle
        q3 == sortedAngles[((3 * Len(angles)) \div 4) + 1].angle
        iqr == q3 - q1
    IN SelectSeq(angles, LAMBDA a :
            /\ 2 * a.angle >= 2 * q1 - 3 * iqr
            /\ 2 * a.angle <= 2 * q3 + 3 * iqr
            /\ a.angle >= lo
            /\ a.angle <= hi)

calculateConsensusAngle(angles, lo, hi) ==
    IF Len(angles) = 0 THEN Frac(0, 1)
    ELSE LET sortedAngles == Sort(angles, "angle")
             filteredAngles == FilteredAngles(angles, lo, hi)
             totalWeight == SumWeights(filteredAngles)
         IN IF Len(filteredAngles) = 0
            THEN Frac(sortedAngles[(Len(sortedAngles) \div 2) + 1].angle, 1)
            ELSE IF totalWeight = 0
            THEN Frac(SumAngles(filteredAngles), Len(filteredAngles))
            ELSE ClampFrac(Frac(SumWeightedAngles(filteredAngles), totalWeight), lo, hi)

Measurements == [angle : AngleSamples, weight : WeightSamples]

SkewIdle ==
    /\ allAngles = <<>>
    /\ consensusAngle = Frac(0, 1)
    /\ skewPc = "idle"

\* The combined measurements calculateSkewAngle hands to the consensus.
SkewInit ==
    /\ \E n \in 0..MaxMeasurements : allAngles \in [1..n -> Measurements]
    /\ consensusAngle = Frac(0, 1)
    /\ skewPc = "ready"

CalculateConsensusAngle ==
    /\ skewPc = "ready"
    /\ consensusAngle' = calculateConsensusAngle(allAngles, minAngle, maxAngle)
    /\ skewPc' = "done"
    /\ UNCHANGED allAngles
    /\ UNCHANGED <<ctcVars, geomVars, lifeVars, pipeVars, orderVars, lineVars, passVars>>

(***************************************************************************)
(* DetectionService: resize, padding and box geometry                      *)
(***************************************************************************)
\* The model input is padded to multiples of this stride.
PAD_MULTIPLE == 32
\* options.minimumAreaThreshold, and the size a final box must exceed.
minimumAreaThreshold == 20
MIN_BOX_SIDE == 5
\* options.paddingVertical and options.paddingHorizontal, in tenths.
paddingVerticalTenths == 4
paddingHorizontalTenths == 6

\* Bounds of the geometry's inputs.
MaxContours == 2
OriginalSizes == {20, 22, 40}
MaxSideLengths == {32, 960}
ContourXW == { <<0, 2>>, <<0, 6>>, <<0, 22>>, <<10, 2>>, <<10, 6>>, <<10, 22>>,
               <<26, 2>>, <<26, 6>> }
ContourYH == { <<0, 6>>, <<0, 22>>, <<26, 6>> }
ContourRects ==
    { [x |-> xw[1], y |-> yh[1], width |-> xw[2], height |-> yh[2]] :
        xw \in ContourXW, yh \in ContourYH }

\* A mutant: the scaled sides are cut off, not rounded.
ResizeByFlooring(ow, oh, maxSide) ==
    IF Max(oh, ow) > maxSide
    THEN LET longer == IF oh > ow THEN oh ELSE ow
         IN [width |-> (ow * maxSide) \div longer,
             height |-> (oh * maxSide) \div longer,
             ratioNum |-> maxSide, ratioDen |-> longer]
    ELSE [width |-> ow, height |-> oh, ratioNum |-> 1, ratioDen |-> 1]

\* calculateResizeDimensions; the ratio is the fraction ratioNum / ratioDen.
calculateResizeDimensions(ow, oh, maxSide) ==
    IF Max(oh, ow) > maxSide
    THEN LET longer == IF oh > ow THEN oh ELSE ow
         IN [width |-> Round(ow * maxSide, longer),
             height |-> Round(oh * maxSide, longer),
             ratioNum |-> maxSide, ratioDen |-> longer]
    ELSE [width |-> ow, height |-> oh, ratioNum |-> 1, ratioDen |-> 1]

\* A mutant: the padded size is the multiple of the stride below the
\* resized size.
PreprocessPaddingDown(ow, oh, maxSide) ==
    LET resize == calculateResizeDimensions(ow, oh, maxSide)
    IN [width |-> (resize.width \div PAD_MULTIPLE) * PAD_MULTIPLE,
        height |-> (resize.height \div PAD_MULTIPLE) * PAD_MULTIPLE,
        resizeW |-> resize.width,
        resizeH |-> resize.height,
        ratioNum |-> resize.ratioNum,
        ratioDen |-> resize.ratioDen,
        originalWidth |-> ow,
        originalHeight |-> oh]

\* preprocessDetection, without the pixels.
preprocessDetection(ow, oh, maxSide) ==
    LET resize == calculateResizeDimensions(ow, oh, maxSide)
    IN [width |-> Ceil(resize.width, PAD_MULTIPLE) * PAD_MULTIPLE,
        height |-> Ceil(resize.height, PAD_MULTIPLE) * PAD_MULTIPLE,
        resizeW |-> resize.width,
        resizeH |-> resize.height,
        ratioNum |-> resize.ratioNum,
        ratioDen |-> resize.ratioDen,
        originalWidth |-> ow,
        originalHeight |-> oh]

\* A mutant: the rectangle is expanded and not clamped.
ApplyPaddingWithoutClamp(rect, maxW, maxH, pvTenths, phTenths) ==
    LET verticalPadding == Round(rect.height * pvTenths, 10)
        horizontalPadding == Round(rect.height * phTenths, 10)
    IN [x |-> rect.x - horizontalPadding,
        y |-> rect.y - verticalPadding,
        width |-> rect.width + 2 * horizontalPadding,
        height |-> rect.height + 2 * verticalPadding]

applyPaddingToRect(rect, maxW, maxH, pvTenths, phTenths) ==
    LET verticalPadding == Round(rect.height * pvTenths, 10)
        horizontalPadding == Round(rect.height * phTenths, 10)
        x == Max(0, rect.x - horizontalPadding)
        y == Max(0, rect.y - verticalPadding)
        rightEdge == Min(maxW, rect.x + rect.width + horizontalPadding)
        bottomEdge == Min(maxH, rect.y + rect.height + verticalPadding)
    IN [x |-> x, y |-> y, width |-> rightEdge - x, height |-> bottomEdge - y]

\* A mutant: the width and height are not clamped to the original image.
ConvertWithoutClamp(rect, ratioNum, ratioDen, ow, oh) ==
    [x |-> Max(0, Round(rect.x * ratioDen, ratioNum)),
     y |-> Max(0, Round(rect.y * ratioDen, ratioNum)),
     width |-> Round(rect.width * ratioDen, ratioNum),
     height |-> Round(rect.height * ratioDen, ratioNum)]

\* rect / resizeRatio, rounded and clamped.
convertToOriginalCoordinates(rect, ratioNum, ratioDen, ow, oh) ==
    LET x == Max(0, Round(rect.x * ratioDen, ratioNum))
        y == Max(0, Round(rect.y * ratioDen, ratioNum))
    IN [x |-> x,
        y |-> y,
        width |-> Min(ow - x, Round(rect.width * ratioDen, ratioNum)),
        height |-> Min(oh - y, Round(rect.height * ratioDen, ratioNum))]

\* The contours extractBoxesFromContours does not discard by area.
LargeEnough(cs) ==
    SelectSeq(cs, LAMBDA rect : ~(rect.width * rect.height <= minimumAreaThreshold))

PaddedRectsOf(cs, inp) ==
    LET kept == LargeEnough(cs)
    IN [i \in 1..Len(kept) |->
          applyPaddingToRect(kept[i], inp.width, inp.height,
                             paddingVerticalTenths, paddingHorizontalTenths)]

FinalBoxesOf(cs, inp) ==
    LET padded == PaddedRectsOf(cs, inp)
    IN [i \in 1..Len(padded) |->
          convertToOriginalCoordinates(padded[i], inp.ratioNum, inp.ratioDen,
                                       inp.originalWidth, inp.originalHeight)]

\* A mutant: every final box is kept, whatever its size.
ExtractWithoutSizeFilter(cs, inp) == FinalBoxesOf(cs, inp)

extractBoxesFromContours(cs, inp) ==
    SelectSeq(FinalBoxesOf(cs, inp),
              LAMBDA b : b.width > MIN_BOX_SIDE /\ b.height > MIN_BOX_SIDE)

GeomIdle ==
    /\ originalWidth = 0
    /\ originalHeight = 0
    /\ maxSideLength = 0
    /\ contours = <<>>
    /\ input = [width |-> 0]
    /\ paddedRects = <<>>
    /\ finalBoxes = <<>>
    /\ boxes = <<>>
    /\ geomPc = "idle"

\* A canvas and the detection options.
GeomInit ==
    /\ originalWidth \in OriginalSizes
    /\ originalHeight \in OriginalSizes
    /\ maxSideLength \in MaxSideLengths
    /\ contours = <<>>
    /\ input = [width |-> 0]
    /\ paddedRects = <<>>
    /\ finalBoxes = <<>>
    /\ boxes = <<>>
    /\ geomPc = "preprocess"

PreprocessDetection ==
    /\ geomPc = "preprocess"
    /\ input' = preprocessDetection(originalWidth, originalHeight, maxSideLength)
    /\ geomPc' = "postprocess"
    /\ UNCHANGED <<originalWidth, originalHeight, maxSideLength, contours,
                   paddedRects, finalBoxes, boxes>>
    /\ UNCHANGED <<ctcVars, skewVars, lifeVars, pipeVars, orderVars, lineVars, passVars>>

\* postprocessDetection: the contours of the probability map (rects inside
\* the padded model input) become boxes of the original image.
PostprocessDetection ==
    /\ geomPc = "postprocess"
    /\ \E n \in 0..MaxContours :
         \E cs \in [1..n -> { r \in ContourRects :
                                  /\ r.x + r.width <= input.width
                                  /\ r.y + r.height <= input.height }] :
            /\ contours' = cs
            /\ paddedRects' = PaddedRectsOf(cs, input)
            /\ finalBoxes' = FinalBoxesOf(cs, input)
            /\ boxes' = extractBoxesFromContours(cs, input)
    /\ geomPc' = "done"
    /\ UNCHANGED <<originalWidth, originalHeight, maxSideLength, input>>
    /\ UNCHANGED <<ctcVars, skewVars, lifeVars, pipeVars, orderVars, lineVars, passVars>>

(***************************************************************************)
(* PaddleOcrService: getInstance, initialize, changeModel, destroy         *)
(*                                                                         *)
(* Each caller has at most one call pending.  A call runs synchronously up *)
(* to its next await; the actions below are those synchronous stretches.   *)
(***************************************************************************)
\* Bounds: the callers, and how many sessions are ever created.
Callers == {"a", "b"}
MaxSessions == 4

LifeIdle ==
    /\ instance = FALSE
    /\ detectionSession = 0
    /\ recognitionSession = 0
    /\ dictionary = 0
    /\ sessions = <<>>
    /\ callPc = [c \in Callers |-> "idle"]
    /\ callOp = [c \in Callers |-> "none"]
    /\ callTarget = [c \in Callers |-> 0]
    /\ callResult = [c \in Callers |-> "none"]

\* The state when the module is loaded: no instance, nobody calling.
LifeInit == LifeIdle

isInitialized == detectionSession # 0 /\ recognitionSession # 0

\* The call of caller c settles (resolves or rejects).
Settle(c, how) ==
    /\ callPc' = [callPc EXCEPT ![c] = "idle"]
    /\ callResult' = [callResult EXCEPT ![c] = how]

\* initialize up to its first await: the detection model is missing or
\* unreadable (throws), or InferenceSession.create is awaited.
InitializeStart(c) ==
    \/ /\ Settle(c, "threw")
       /\ UNCHANGED callTarget
    \/ /\ callPc' = [callPc EXCEPT ![c] = "awaitDetection"]
       /\ callResult' = [callResult EXCEPT ![c] = "pending"]
       /\ UNCHANGED callTarget

\* destroy up to its first await: detectionSession?.release() is awaited.
DestroyStart(c) ==
    /\ callPc' = [callPc EXCEPT ![c] = "awaitDetectionRelease"]
    /\ callTarget' = [callTarget EXCEPT ![c] = detectionSession]
    /\ callResult' = [callResult EXCEPT ![c] = "pending"]

\* PaddleOcrService.getInstance(options?)
GetInstance(c, withOptions) ==
    /\ callPc[c] = "idle"
    /\ callOp' = [callOp EXCEPT ![c] = "getInstance"]
    /\ IF ~instance
       THEN /\ instance' = TRUE
            /\ InitializeStart(c)
       ELSE /\ UNCHANGED instance
            /\ IF withOptions
               THEN InitializeStart(c)
               ELSE Settle(c, "returned") /\ UNCHANGED callTarget
    /\ UNCHANGED <<detectionSession, recognitionSession, dictionary, sessions>>
    /\ UNCHANGED <<ctcVars, skewVars, geomVars, pipeVars, orderVars, lineVars, passVars>>

\* PaddleOcrService.changeModel(options)
ChangeModel(c) ==
    /\ callPc[c] = "idle"
    /\ callOp' = [callOp EXCEPT ![c] = "changeModel"]
    /\ IF ~instance
       THEN /\ instance' = TRUE
            /\ InitializeStart(c)
       ELSE /\ UNCHANGED instance
            /\ DestroyStart(c)
    /\ UNCHANGED <<detectionSession, recognitionSession, dictionary, sessions>>
    /\ UNCHANGED <<ctcVars, skewVars, geomVars, pipeVars, orderVars, lineVars, passVars>>

\* service.initialize(overrideOptions?) called on the instance.
Initialize(c) ==
    /\ callPc[c] = "idle"
    /\ instance
    /\ callOp' = [callOp EXCEPT ![c] = "initialize"]
    /\ InitializeStart(c)
    /\ UNCHANGED <<instance, detectionSession, recognitionSession, dictionary, sessions>>
    /\ UNCHANGED <<ctcVars, skewVars, geomVars, pipeVars, orderVars, lineVars, passVars>>

\* service.destroy() called on the instance.
Destroy(c) ==
    /\ callPc[c] = "idle"
    /\ instance
    /\ callOp' = [callOp EXCEPT ![c] = "destroy"]
    /\ DestroyStart(c)
    /\ UNCHANGED <<instance, detectionSession, recognitionSession, dictionary, sessions>>
    /\ UNCHANGED <<ctcVars, skewVars, geomVars, pipeVars, orderVars, lineVars, passVars>>

\* initialize resumes after awaiting the detection session: the creation
\* rejected; or the session is stored and the recognition model is missing
\* or unreadable; or the session is stored and the next creation is awaited.
DetectionSessionCreated(c) ==
    /\ callPc[c] = "awaitDetection"
    /\ \/ /\ Settle(c, "threw")
          /\ UNCHANGED <<detectionSession, sessions>>
       \/ /\ Len(sessions) < MaxSessions
          /\ sessions' = Append(sessions, "open")
          /\ detectionSession' = Len(sessions) + 1
          /\ \/ Settle(c, "threw")
             \/ /\ callPc' = [callPc EXCEPT ![c] = "awaitRecognition"]
                /\ UNCHANGED callResult
    /\ UNCHANGED <<instance, recognitionSession, dictionary, callOp, callTarget>>
    /\ UNCHANGED <<ctcVars, skewVars, geomVars, pipeVars, orderVars, lineVars, passVars>>

\* initialize resumes after awaiting the recognition session: the creation
\* rejected; or the session is stored and the dictionary cannot be read; or
\* the session and the dictionary are stored and initialize returns, and
\* with it getInstance or changeModel.
RecognitionSessionCreated(c) ==
    /\ callPc[c] = "awaitRecognition"
    /\ \/ /\ Settle(c, "threw")
          /\ UNCHANGED <<recognitionSession, sessions, dictionary>>
       \/ /\ Len(sessions) < MaxSessions
          /\ sessions' = Append(sessions, "open")
          /\ recognitionSession' = Len(sessions) + 1
          /\ \/ /\ Settle(c, "threw")
                /\ UNCHANGED dictionary
             \/ /\ dictionary' = Len(sessions) + 1
                /\ Settle(c, "returned")
    /\ UNCHANGED <<instance, detectionSession, callOp, callTarget>>
    /\ UNCHANGED <<ctcVars, skewVars, geomVars, pipeVars, orderVars, lineVars, passVars>>

\* The sessions after release() of session id completed (none for null).
Released(id) ==
    IF id = 0 THEN sessions ELSE [sessions EXCEPT ![id] = "released"]

\* destroy resumes after awaiting detectionSession?.release() and awaits
\* recognitionSession?.release().
DetectionSessionReleased(c) ==
    /\ callPc[c] = "awaitDetectionRelease"
    /\ sessions' = Released(callTarget[c])
    /\ callTarget' = [callTarget EXCEPT ![c] = recognitionSession]
    /\ callPc' = [callPc EXCEPT ![c] = "awaitRecognitionRelease"]
    /\ UNCHANGED <<instance, detectionSession, recognitionSession, dictionary,
                   callOp, callResult>>
    /\ UNCHANGED <<ctcVars, skewVars, geomVars, pipeVars, orderVars, lineVars, passVars>>

\* destroy resumes after awaiting recognitionSession?.release() and returns;
\* changeModel goes on to initialize(options).
RecognitionSessionReleased(c) ==
    /\ callPc[c] = "awaitRecognitionRelease"
    /\ sessions' = Released(callTarget[c])
    /\ IF callOp[c] = "changeModel"
       THEN /\ \/ Settle(c, "threw")
               \/ /\ callPc' = [callPc EXCEPT ![c] = "awaitDetection"]
                  /\ UNCHANGED callResult
            /\ callTarget' = [callTarget EXCEPT ![c] = 0]
       ELSE /\ Settle(c, "returned")
            /\ callTarget' = [callTarget EXCEPT ![c] = 0]
    /\ UNCHANGED <<instance, detectionSession, recognitionSession, dictionary, callOp>>
    /\ UNCHANGED <<ctcVars, skewVars, geomVars, pipeVars, orderVars, lineVars, passVars>>

(***************************************************************************)
(* PaddleOcrService.recognize: DetectionService.run, RecognitionService.run*)
(* and processRecognition                                                  *)
(*                                                                         *)
(* The inference sessions and the image library are outside the code: what *)
(* they answer is chosen when the call that awaits them resumes.  A        *)
(* rotated canvas is taken to keep the size of the canvas it was made of.  *)
(***************************************************************************)
\* DEFAULT_DETECTION_OPTIONS: maxSideLength, and no autoDeskew entry.
DEFAULT_maxSideLength == 960
DEFAULT_autoDeskew == "undefined"

\* options.detection.autoDeskew as the caller may give it.
AutoDeskewOptions == {"unset", "true", "false"}

\* merge({}, DEFAULT_PADDLE_OPTIONS, options).detection.autoDeskew
MergedAutoDeskew(user) == IF user = "unset" THEN DEFAULT_autoDeskew ELSE user

\* A mutant: the skew pass is made whatever the option says.
TruthyWhateverGiven(v) == TRUE

\* if (this.options.autoDeskew)
Truthy(v) == v = "true"

\* Bounds: the images, the contours the detection model may find in them,
\* the contours and measurements of the skew pass, the boxes handed to
\* RecognitionService.run directly, and what recognizing a crop may do.
PipelineImages == { [width |-> 40, height |-> 40] }
SceneRects == { [x |-> 4, y |-> 4, width |-> 10, height |-> 6],
                [x |-> 24, y |-> 5, width |-> 10, height |-> 6],
                [x |-> 4, y |-> 26, width |-> 10, height |-> 6] }
SkewContourSamples == { <<>>,
                        << [x |-> 4, y |-> 4, width |-> 10, height |-> 6] >>,
                        << [x |-> 4, y |-> 4, width |-> 2, height |-> 22] >> }
SkewAngleSamples == { <<>>,
                      << [angle |-> 5, weight |-> 1] >>,
                      << [angle |-> -30, weight |-> 1] >> }
MaxBoxes == 2
RecBoxSamples == { [x |-> 0, y |-> 0, width |-> 10, height |-> 10],
                   [x |-> 0, y |-> 1, width |-> 10, height |-> 10],
                   [x |-> 0, y |-> 30, width |-> 10, height |-> 10],
                   [x |-> 5, y |-> 5, width |-> 0, height |-> 10] }
Outcomes == {"zeroCrop", "throw", "missing", "tensorA", "tensorAB"}
PipelineDictionary == <<"_", "a", "b", "#">>

\* The output tensor of the recognition session for an outcome that has one.
OutputTensor(o) ==
    IF o = "tensorA"
    THEN [data |-> <<0, 1, 0, 0,  0, 1, 0, 0>>, dims |-> <<1, 2, 4>>]
    ELSE [data |-> <<0, 1, 0, 0,  0, 0, 1, 0>>, dims |-> <<1, 2, 4>>]

\* JavaScript numbers as far as the confidence needs them: a fraction, NaN,
\* or undefined (a property the object does not have).
Num(n, d) == [kind |-> "number", num |-> n, den |-> d]
NaN == [kind |-> "NaN"]
Undefined == [kind |-> "undefined"]

\* r.confidence
ConfidenceOf(r) == IF "confidence" \in DOMAIN r THEN r.confidence ELSE Undefined

\* a + b and a / n (n a positive integer) of JavaScript.
JsAdd(a, b) ==
    IF a.kind = "number" /\ b.kind = "number"
    THEN Num(a.num * b.den + b.num * a.den, a.den * b.den)
    ELSE NaN
JsDivide(a, n) ==
    IF a.kind = "number" THEN Num(a.num, a.den * n) ELSE NaN

\* ---- DetectionService
\* The contours calculateSkewAngle keeps as text regions.
TextRegions(cs) ==
    SelectSeq(cs, LAMBDA rect :
        /\ ~(rect.width * rect.height < minimumAreaThreshold)
        /\ 5 * rect.width > rect.height
        /\ rect.width < 10 * rect.height)

\* A mutant: the measurements are used although no text region was found.
SkewAngleWithoutRegions(outputPresent, cs, angles) ==
    IF ~outputPresent THEN Frac(0, 1)
    ELSE IF Len(angles) = 0 THEN Frac(0, 1)
    ELSE calculateConsensusAngle(angles, minAngle, maxAngle)

\* calculateSkewAngle after its inference: outputPresent is whether the
\* model gave an output tensor, cs the contours of the probability map and
\* angles the measurements the three methods take of the text regions.
calculateSkewAngle(outputPresent, cs, angles) ==
    IF ~outputPresent THEN Frac(0, 1)
    ELSE IF Len(TextRegions(cs)) = 0 THEN Frac(0, 1)
    ELSE IF Len(angles) = 0 THEN Frac(0, 1)
    ELSE calculateConsensusAngle(angles, minAngle, maxAngle)

\* A mutant: the error leaves run and rejects recognize().
DetectionRunRethrow == [pc |-> "failed", detection |-> <<>>]

\* The catch of DetectionService.run: the error is logged and run returns
\* an empty list to recognize().
DetectionRunCatch == [pc |-> "detected", detection |-> <<>>]

\* ---- RecognitionService
isValidBox(box) == ~(box.width <= 0 \/ box.height <= 0)

filterValidBoxes(bs) ==
    SelectSeq([i \in 1..Len(bs) |-> [box |-> bs[i], index |-> i - 1]],
              LAMBDA b : isValidBox(b.box))

decodeResults(outputTensor, dict) ==
    ctcGreedyDecode(outputTensor.data, outputTensor.dims[2], outputTensor.dims[3], dict)

\* A mutant: the error leaves processBox and rejects its promise.
ProcessBoxRethrow(o) == [kind |-> "rejected"]

\* The catch of processBox: the error is logged and the task resolves to null.
ProcessBoxCatch(o) == [kind |-> "null"]

\* What the promise of processBox settles to for a box whose crop does o.
processBox(box, o) ==
    IF o \in {"zeroCrop", "throw", "missing"}
    THEN ProcessBoxCatch(o)
    ELSE [kind |-> "result",
          value |-> [text |-> decodeResults(OutputTensor(o), PipelineDictionary),
                     box |-> box]]

\* The first slot of vals that is still pending.
FirstPending(vals) ==
    CHOOSE k \in 1..Len(vals) :
        /\ vals[k].kind = "pending"
        /\ \A j \in 1..(k - 1) : vals[j].kind # "pending"

\* A mutant: the values are collected in the order the promises settle.
PromiseAllInSettlingOrder(vals, k, v) ==
    [vals EXCEPT ![FirstPending(vals)] = v]

\* Promise.all: the value of the k-th promise goes to the k-th slot.
PromiseAll(vals, k, v) ==
    [vals EXCEPT ![k] = v]

\* results.filter(result => result !== null)
NonNull(vals) ==
    LET kept == SelectSeq(vals, LAMBDA v : v.kind = "result")
    IN [i \in 1..Len(kept) |-> kept[i].value]

sortResultsByReadingOrder(results) == Sort(results, "readingOrder")

\* ---- processRecognition
RECURSIVE SumConfidence(_, _)
SumConfidence(rs, sum) ==
    IF rs = <<>> THEN sum
    ELSE SumConfidence(Tail(rs), JsAdd(sum, ConfidenceOf(Head(rs))))

RECURSIVE SumHeights(_)
SumHeights(line) ==
    IF line = <<>> THEN 0 ELSE Head(line).box.height + SumHeights(Tail(line))

\* A mutant: the line in progress when the loop ends is forgotten.
FinishLinesWithoutLast(lines, currentLine) == lines

\* A mutant: the running average is the height of the box just added.
HeightOfLast(line) == Frac(line[Len(line)].box.height, 1)

\* avgHeight = currentLine.reduce((sum, r) => sum + r.box.height, 0) /
\* currentLine.length
MeanHeight(line) == Frac(SumHeights(line), Len(line))

\* if (currentLine.length > 0) result.lines.push([...currentLine])
FinishLines(lines, currentLine) ==
    IF Len(currentLine) > 0 THEN Append(lines, currentLine) ELSE lines

\* fullText += ` ${current.text}` within a line.
ItemSeparator == " "

\* A mutant: a new line is begun with a space, too.
SpaceAsLineSeparator == " "

\* fullText += `\n${current.text}` when a new line begins.
LineSeparator == "\n"

\* The for loop from i (1-based here); avgHeight is a fraction, and
\* verticalGap <= avgHeight * 0.5 is compared doubled.
RECURSIVE GroupLoop(_, _, _, _, _, _)
GroupLoop(rs, i, currentLine, fullText, avgHeight, lines) ==
    IF i > Len(rs)
    THEN [text |-> fullText, lines |-> FinishLines(lines, currentLine)]
    ELSE LET current == rs[i]
             previous == rs[i - 1]
             verticalGap == Abs(current.box.y - previous.box.y)
         IN IF FracLeq(Frac(2 * verticalGap, 1), avgHeight)
            THEN LET line == Append(currentLine, current)
                 IN GroupLoop(rs, i + 1, line, fullText \o ItemSeparator \o current.text,
                              MeanHeight(line), lines)
            ELSE GroupLoop(rs, i + 1, <<current>>, fullText \o LineSeparator \o current.text,
                           Frac(current.box.height, 1), Append(lines, currentLine))

processRecognition(rs) ==
    IF Len(rs) = 0
    THEN [text |-> "", lines |-> <<>>, confidence |-> Num(0, 1)]
    ELSE LET totalConfidence == SumConfidence(rs, Num(0, 1))
             grouped == GroupLoop(rs, 2, <<rs[1]>>, rs[1].text,
                                  Frac(rs[1].box.height, 1), <<>>)
         IN [text |-> grouped.text,
             lines |-> grouped.lines,
             confidence |-> JsDivide(totalConfidence, Len(rs))]

\* ---- the state of a call
PipeIdle ==
    /\ pc = "idle"
    /\ entry = "none"
    /\ userAutoDeskew = "unset"
    /\ flatten = FALSE
    /\ engineCalls = 0
    /\ detectionThrew = FALSE
    /\ skewAngle = Frac(0, 1)
    /\ canvasToProcess = "image"
    /\ detection = <<>>
    /\ skewOutput = "none"
    /\ detectionExit = "none"
    /\ detectionSteps = <<>>
    /\ canvasFailed = FALSE
    /\ cropCanvas = "none"
    /\ validBoxes = <<>>
    /\ recOutcomes = <<>>
    /\ taskPc = <<>>
    /\ values = <<>>
    /\ completionOrder = <<>>
    /\ recognition = <<>>
    /\ processed = [text |-> ""]
    /\ result = [text |-> ""]

\* No call has been made of the RecognitionService.
RecognitionIdle ==
    /\ canvasFailed = FALSE
    /\ cropCanvas = "none"
    /\ validBoxes = <<>>
    /\ recOutcomes = <<>>
    /\ taskPc = <<>>
    /\ values = <<>>
    /\ completionOrder = <<>>
    /\ recognition = <<>>
    /\ processed = [text |-> ""]
    /\ result = [text |-> ""]

\* A PaddleOcrService constructed with its options, and the image
\* recognize() will be given.
PipeInit ==
    /\ pc = "idle"
    /\ entry = "recognize"
    /\ userAutoDeskew \in AutoDeskewOptions
    /\ flatten = FALSE
    /\ engineCalls = 0
    /\ detectionThrew = FALSE
    /\ skewAngle = Frac(0, 1)
    /\ canvasToProcess = "image"
    /\ detection = <<>>
    /\ skewOutput = "none"
    /\ detectionExit = "none"
    /\ detectionSteps = <<>>
    /\ RecognitionIdle
    /\ \E img \in PipelineImages :
          /\ originalWidth = img.width
          /\ originalHeight = img.height
    /\ maxSideLength = DEFAULT_maxSideLength
    /\ contours = <<>>
    /\ input = [width |-> 0]
    /\ paddedRects = <<>>
    /\ finalBoxes = <<>>
    /\ boxes = <<>>
    /\ geomPc = "idle"

\* A RecognitionService about to run on an image and a list of boxes.
RecInit ==
    /\ pc = "detected"
    /\ entry = "run"
    /\ userAutoDeskew = "unset"
    /\ flatten = FALSE
    /\ engineCalls = 0
    /\ detectionThrew = FALSE
    /\ skewAngle = Frac(0, 1)
    /\ canvasToProcess = "image"
    /\ \E n \in 0..MaxBoxes : detection \in [1..n -> RecBoxSamples]
    /\ skewOutput = "none"
    /\ detectionExit = "none"
    /\ detectionSteps = <<>>
    /\ RecognitionIdle

detectionFrame == <<userAutoDeskew, entry, flatten>>
recognitionFrame == <<canvasFailed, cropCanvas, validBoxes, recOutcomes, taskPc, values,
                      completionOrder, recognition, processed, result>>
geometryFrame == <<originalWidth, originalHeight, maxSideLength, geomPc>>

\* recognize(image, options) is called and awaits ImageProcessor.initRuntime().
Recognize ==
    /\ pc = "idle"
    /\ entry = "recognize"
    /\ flatten' \in BOOLEAN
    /\ pc' = "initRuntime"
    /\ UNCHANGED <<entry, userAutoDeskew, engineCalls, detectionThrew, skewAngle,
                   canvasToProcess, detection, skewOutput, detectionExit,
                   detectionSteps>>
    /\ UNCHANGED recognitionFrame
    /\ UNCHANGED <<ctcVars, skewVars, geomVars, lifeVars, orderVars, lineVars, passVars>>

\* initRuntime settles: it rejects and so does recognize(); or the two
\* services are constructed and detector.run awaits prepareCanvas.
InitRuntimeSettles ==
    /\ pc = "initRuntime"
    /\ pc' \in {"failed", "prepareCanvas"}
    /\ UNCHANGED <<entry, userAutoDeskew, flatten, engineCalls, detectionThrew,
                   skewAngle, canvasToProcess, detection, skewOutput,
                   detectionExit, detectionSteps>>
    /\ UNCHANGED recognitionFrame
    /\ UNCHANGED <<ctcVars, skewVars, geomVars, lifeVars, orderVars, lineVars, passVars>>

\* A step of DetectionService.run and the canvas it works on.
Step(name, canvas) == [step |-> name, canvas |-> canvas]

\* A mutant: a missing output tensor is an error that rejects recognize().
DetectionRunNoOutputThrows == [pc |-> "failed", detection |-> <<>>]

\* if (!detection) return []: without an output tensor run returns an empty
\* list to recognize().
DetectionRunNoOutput == [pc |-> "detected", detection |-> <<>>]

\* DetectionService.run resumes with the canvas: prepareCanvas rejected and
\* the catch returns [], or the canvas is preprocessed and the detection
\* session runs, for the skew pass when autoDeskew is set.
DetectionCanvasPrepared ==
    /\ pc = "prepareCanvas"
    /\ \/ /\ pc' = DetectionRunCatch.pc
          /\ detection' = DetectionRunCatch.detection
          /\ detectionExit' = "canvasError"
          /\ UNCHANGED <<input, detectionSteps>>
       \/ /\ input' = preprocessDetection(originalWidth, originalHeight, maxSideLength)
          /\ pc' = IF Truthy(MergedAutoDeskew(userAutoDeskew))
                   THEN "skewInference" ELSE "mainInference"
          /\ detectionSteps' = << Step("preprocess", canvasToProcess),
                                  Step("inference", canvasToProcess) >>
          /\ UNCHANGED <<detection, detectionExit>>
    /\ UNCHANGED <<engineCalls, detectionThrew, skewAngle, canvasToProcess, skewOutput>>
    /\ UNCHANGED detectionFrame
    /\ UNCHANGED recognitionFrame
    /\ UNCHANGED <<contours, paddedRects, finalBoxes, boxes>>
    /\ UNCHANGED geometryFrame
    /\ UNCHANGED <<ctcVars, skewVars, lifeVars, orderVars, lineVars, passVars>>

\* calculateSkewAngle resumes after its inference: the session threw, which
\* runInference rethrows and the catch of run turns into []; or the angle is
\* computed (0 without an output tensor), the canvas rotated and
\* preprocessed, and the session runs again.
SkewInferenceSettles ==
    /\ pc = "skewInference"
    /\ engineCalls' = engineCalls + 1
    /\ \/ /\ detectionThrew' = TRUE
          /\ skewOutput' = "threw"
          /\ pc' = DetectionRunCatch.pc
          /\ detection' = DetectionRunCatch.detection
          /\ detectionExit' = "inferenceError"
          /\ UNCHANGED <<skewAngle, canvasToProcess, input, detectionSteps>>
       \/ /\ \E out \in {"tensor", "missing"}, cs \in SkewContourSamples,
                angles \in SkewAngleSamples :
                /\ skewOutput' = out
                /\ skewAngle' = calculateSkewAngle(out = "tensor", cs, angles)
          /\ canvasToProcess' = "rotated"
          /\ input' = preprocessDetection(originalWidth, originalHeight, maxSideLength)
          /\ detectionSteps' = detectionSteps \o
                << Step("rotate", canvasToProcess),
                   Step("preprocess", "rotated"),
                   Step("inference", "rotated") >>
          /\ pc' = "mainInference"
          /\ UNCHANGED <<detectionThrew, detection, detectionExit>>
    /\ UNCHANGED detectionFrame
    /\ UNCHANGED recognitionFrame
    /\ UNCHANGED <<contours, paddedRects, finalBoxes, boxes>>
    /\ UNCHANGED geometryFrame
    /\ UNCHANGED <<ctcVars, skewVars, lifeVars, orderVars, lineVars, passVars>>

\* DetectionService.run resumes after its inference: the session threw
\* (catch: []), gave no output tensor ([]), or gave a probability map whose
\* contours postprocessDetection turns into boxes.
MainInferenceSettles ==
    /\ pc = "mainInference"
    /\ engineCalls' = engineCalls + 1
    /\ \/ /\ detectionThrew' = TRUE
          /\ pc' = DetectionRunCatch.pc
          /\ detection' = DetectionRunCatch.detection
          /\ detectionExit' = "inferenceError"
          /\ UNCHANGED <<contours, paddedRects, finalBoxes, boxes, detectionSteps>>
       \/ /\ pc' = DetectionRunNoOutput.pc
          /\ detection' = DetectionRunNoOutput.detection
          /\ detectionExit' = "noOutput"
          /\ UNCHANGED <<detectionThrew, contours, paddedRects, finalBoxes, boxes,
                         detectionSteps>>
       \/ /\ \E n \in 0..MaxContours :
               \E cs \in [1..n -> SceneRects] :
                  /\ contours' = cs
                  /\ paddedRects' = PaddedRectsOf(cs, input)
                  /\ finalBoxes' = FinalBoxesOf(cs, input)
                  /\ boxes' = extractBoxesFromContours(cs, input)
                  /\ detection' = extractBoxesFromContours(cs, input)
          /\ detectionSteps' = Append(detectionSteps, Step("postprocess", canvasToProcess))
          /\ detectionExit' = "boxes"
          /\ pc' = "detected"
          /\ UNCHANGED detectionThrew
    /\ UNCHANGED <<skewAngle, canvasToProcess, input, skewOutput>>
    /\ UNCHANGED detectionFrame
    /\ UNCHANGED recognitionFrame
    /\ UNCHANGED geometryFrame
    /\ UNCHANGED <<ctcVars, skewVars, lifeVars, orderVars, lineVars, passVars>>

\* A mutant: recognition may begin while the detection inference is pending.
DetectionStillRunning == pc \in {"detected", "mainInference"}

\* const detection = await detector.run(image): recognitor.run is called
\* with the boxes detector.run returned.
DetectionCompleted == pc = "detected"

\* RecognitionService.run(image, detection), image being the argument of
\* recognize(), up to await Promise.all: prepareCanvas rejected
\* and the catch returns []; or the valid boxes are kept and every
\* processBox runs to its first await that leaves the microtask queue, the
\* inference.  A task whose crop has a zero dimension has settled by then.
RecognitionRunStart ==
    /\ DetectionCompleted
    /\ \/ /\ canvasFailed' = TRUE
          /\ recognition' = <<>>
          /\ pc' = "recognized"
          /\ UNCHANGED <<cropCanvas, validBoxes, recOutcomes, taskPc, values>>
       \/ /\ canvasFailed' = FALSE
          /\ cropCanvas' = "image"
          /\ validBoxes' = filterValidBoxes(detection)
          /\ \E o \in [1..Len(detection) -> Outcomes] :
               LET oc == [i \in 1..Len(detection) |->
                             IF isValidBox(detection[i]) THEN o[i] ELSE "skipped"]
                   vb == filterValidBoxes(detection)
               IN /\ recOutcomes' = oc
                  /\ taskPc' = [k \in 1..Len(vb) |->
                                   IF oc[vb[k].index + 1] = "zeroCrop"
                                   THEN "settled" ELSE "inference"]
                  /\ values' = [k \in 1..Len(vb) |->
                                   IF oc[vb[k].index + 1] = "zeroCrop"
                                   THEN processBox(vb[k].box, "zeroCrop")
                                   ELSE [kind |-> "pending"]]
          /\ pc' = "recognizing"
          /\ UNCHANGED recognition
    /\ UNCHANGED <<completionOrder, processed, result>>
    /\ UNCHANGED <<entry, userAutoDeskew, flatten, engineCalls, detectionThrew,
                   skewAngle, canvasToProcess, detection, skewOutput,
                   detectionExit, detectionSteps>>
    /\ UNCHANGED <<ctcVars, skewVars, geomVars, lifeVars, orderVars, lineVars, passVars>>

\* The inference of task k settles and processBox runs to its end.
InferenceSettles(k) ==
    /\ pc = "recognizing"
    /\ k \in 1..Len(taskPc)
    /\ taskPc[k] = "inference"
    /\ taskPc' = [taskPc EXCEPT ![k] = "settled"]
    /\ values' = PromiseAll(values, k,
                    processBox(validBoxes[k].box, recOutcomes[validBoxes[k].index + 1]))
    /\ completionOrder' = Append(completionOrder, k)
    /\ UNCHANGED <<pc, canvasFailed, cropCanvas, validBoxes, recOutcomes, recognition,
                   processed, result>>
    /\ UNCHANGED <<entry, userAutoDeskew, flatten, engineCalls, detectionThrew,
                   skewAngle, canvasToProcess, detection, skewOutput,
                   detectionExit, detectionSteps>>
    /\ UNCHANGED <<ctcVars, skewVars, geomVars, lifeVars, orderVars, lineVars, passVars>>

\* Promise.all settles: it resolves once every task has, and run returns the
\* sorted non-null results; it rejects with the first task that does, and
\* the catch of run returns [].
RecognitionRunReturns ==
    /\ pc = "recognizing"
    /\ \/ \E k \in 1..Len(values) : values[k].kind = "rejected"
       \/ \A k \in 1..Len(taskPc) : taskPc[k] = "settled"
    /\ recognition' = IF \E k \in 1..Len(values) : values[k].kind = "rejected"
                      THEN <<>>
                      ELSE sortResultsByReadingOrder(NonNull(values))
    /\ pc' = "recognized"
    /\ UNCHANGED <<canvasFailed, cropCanvas, validBoxes, recOutcomes, taskPc, values,
                   completionOrder, processed, result>>
    /\ UNCHANGED <<entry, userAutoDeskew, flatten, engineCalls, detectionThrew,
                   skewAngle, canvasToProcess, detection, skewOutput,
                   detectionExit, detectionSteps>>
    /\ UNCHANGED <<ctcVars, skewVars, geomVars, lifeVars, orderVars, lineVars, passVars>>

\* recognize resumes with the recognition results and returns.
RecognizeReturns ==
    /\ pc = "recognized"
    /\ entry = "recognize"
    /\ processed' = processRecognition(recognition)
    /\ result' = IF flatten
                 THEN [text |-> processRecognition(recognition).text,
                       results |-> recognition,
                       confidence |-> processRecognition(recognition).confidence]
                 ELSE processRecognition(recognition)
    /\ pc' = "done"
    /\ UNCHANGED <<canvasFailed, cropCanvas, validBoxes, recOutcomes, taskPc, values,
                   completionOrder, recognition>>
    /\ UNCHANGED <<entry, userAutoDeskew, flatten, engineCalls, detectionThrew,
                   skewAngle, canvasToProcess, detection, skewOutput,
                   detectionExit, detectionSteps>>
    /\ UNCHANGED <<ctcVars, skewVars, geomVars, lifeVars, orderVars, lineVars, passVars>>

(***************************************************************************)
(* The order of the boxes: DetectionService pushes them as the contours    *)
(* are iterated, the former PaddleOcrService.postprocessDetection sorted   *)
(* them, RecognitionService sorts the results.                             *)
(***************************************************************************)
\* Bounds: the final boxes of two contours.
OrderXs == {0, 20}
OrderYs == {0, 1, 5, 30}
OrderHeights == {10, 20}
OrderBoxes ==
    { [x |-> bx, y |-> by, width |-> 10, height |-> bh] :
        bx \in OrderXs, by \in OrderYs, bh \in OrderHeights }

OrderIdle ==
    /\ contourBoxes = <<>>
    /\ detectedBoxes = <<>>
    /\ legacyBoxes = <<>>
    /\ sortedResults = <<>>
    /\ orderPc = "idle"

\* Two contours whose final boxes pass the size filter.
OrderInit ==
    /\ contourBoxes \in [1..2 -> OrderBoxes]
    /\ detectedBoxes = <<>>
    /\ legacyBoxes = <<>>
    /\ sortedResults = <<>>
    /\ orderPc = "contours"

\* contours.iterate(... boxes.push(finalBox) ...); return boxes
PushInContourOrder(bs) == bs

\* DetectionService.extractBoxesFromContours returns the boxes.
ExtractBoxes ==
    /\ orderPc = "contours"
    /\ detectedBoxes' = PushInContourOrder(contourBoxes)
    /\ orderPc' = "detected"
    /\ UNCHANGED <<contourBoxes, legacyBoxes, sortedResults>>
    /\ UNCHANGED <<ctcVars, skewVars, geomVars, lifeVars, pipeVars, lineVars, passVars>>

\* The former postprocessDetection sorts the same boxes.
LegacySortDetectedBoxes ==
    /\ orderPc = "detected"
    /\ legacyBoxes' = Sort(contourBoxes, "detectedBoxes")
    /\ orderPc' = "legacy"
    /\ UNCHANGED <<contourBoxes, detectedBoxes, sortedResults>>
    /\ UNCHANGED <<ctcVars, skewVars, geomVars, lifeVars, pipeVars, lineVars, passVars>>

\* RecognitionService recognized every detected box and sorts the results.
SortResultsByReadingOrder ==
    /\ orderPc = "legacy"
    /\ sortedResults' = sortResultsByReadingOrder(
            [i \in 1..Len(detectedBoxes) |-> [text |-> "a", box |-> detectedBoxes[i]]])
    /\ orderPc' = "done"
    /\ UNCHANGED <<contourBoxes, detectedBoxes, legacyBoxes>>
    /\ UNCHANGED <<ctcVars, skewVars, geomVars, lifeVars, pipeVars, lineVars, passVars>>

(***************************************************************************)
(* processRecognition on the lists RecognitionService.run can return       *)
(***************************************************************************)
\* Bounds: the recognized boxes, and how many of them.
MaxItems == 3
ItemXs == {0, 20, 40}
ItemYs == {0, 3, 5, 30}
ItemHeights == {4, 12}
ItemResults ==
    { [text |-> "a", box |-> [x |-> bx, y |-> by, width |-> 10, height |-> bh]] :
        bx \in ItemXs, by \in ItemYs, bh \in ItemHeights }

LineIdle ==
    /\ lineItems = <<>>
    /\ lineResult = [text |-> ""]
    /\ linePc = "idle"

\* recognize() holds what RecognitionService.run returned: the non-null
\* results of some boxes, sorted by sortResultsByReadingOrder.
LineInit ==
    /\ \E n \in 0..MaxItems :
          \E rs \in [1..n -> ItemResults] :
              lineItems = sortResultsByReadingOrder(rs)
    /\ lineResult = [text |-> ""]
    /\ linePc = "ready"

\* processRecognition(recognition)
ProcessRecognition ==
    /\ linePc = "ready"
    /\ lineResult' = processRecognition(lineItems)
    /\ linePc' = "done"
    /\ UNCHANGED lineItems
    /\ UNCHANGED <<ctcVars, skewVars, geomVars, lifeVars, pipeVars, orderVars, passVars>>

(***************************************************************************)
(* calculateSkewAngle on what its inference and its three methods give     *)
(***************************************************************************)
\* Bounds: the contours of the probability map (none; a text region; too
\* tall; too small; too small and a text region) and the measurements.
PassContourSamples ==
    { <<>>,
      << [x |-> 4, y |-> 4, width |-> 10, height |-> 6] >>,
      << [x |-> 4, y |-> 4, width |-> 2, height |-> 22] >>,
      << [x |-> 4, y |-> 4, width |-> 3, height |-> 6] >>,
      << [x |-> 4, y |-> 4, width |-> 3, height |-> 6],
         [x |-> 4, y |-> 20, width |-> 10, height |-> 6] >> }
PassMeasurements ==
    { [angle |-> 5, weight |-> 1], [angle |-> -30, weight |-> 1],
      [angle |-> 10, weight |-> 0] }

PassIdle ==
    /\ passOutput = FALSE
    /\ passContours = <<>>
    /\ passAngles = <<>>
    /\ passResult = Frac(0, 1)
    /\ passPc = "idle"

\* The inference of the pass has settled without throwing.
PassInit ==
    /\ passOutput \in BOOLEAN
    /\ passContours \in PassContourSamples
    /\ \E n \in 0..MaxMeasurements : passAngles \in [1..n -> PassMeasurements]
    /\ passResult = Frac(0, 1)
    /\ passPc = "ready"

\* calculateSkewAngle from its inference to its return.
CalculateSkewAngle ==
    /\ passPc = "ready"
    /\ passResult' = calculateSkewAngle(passOutput, passContours, passAngles)
    /\ passPc' = "done"
    /\ UNCHANGED <<passOutput, passContours, passAngles>>
    /\ UNCHANGED <<ctcVars, skewVars, geomVars, lifeVars, pipeVars, orderVars,
                   lineVars>>

(***************************************************************************)
(* Specifications                                                          *)
(***************************************************************************)
InitCtc == CtcInit /\ SkewIdle /\ GeomIdle /\ LifeIdle /\ PipeIdle /\ OrderIdle /\ LineIdle /\ PassIdle
CtcNext == DecodeResults
SpecCtc == InitCtc /\ [][CtcNext]_vars

InitSkew == SkewInit /\ CtcIdle /\ GeomIdle /\ LifeIdle /\ PipeIdle /\ OrderIdle /\ LineIdle /\ PassIdle
SkewNext == CalculateConsensusAngle
SpecSkew == InitSkew /\ [][SkewNext]_vars

InitGeom == GeomInit /\ CtcIdle /\ SkewIdle /\ LifeIdle /\ PipeIdle /\ OrderIdle /\ LineIdle /\ PassIdle
GeomNext == PreprocessDetection \/ PostprocessDetection
SpecGeom == InitGeom /\ [][GeomNext]_vars

InitLife == LifeInit /\ CtcIdle /\ SkewIdle /\ GeomIdle /\ PipeIdle /\ OrderIdle /\ LineIdle /\ PassIdle
LifeNext ==
    \E c \in Callers :
        \/ \E withOptions \in BOOLEAN : GetInstance(c, withOptions)
        \/ ChangeModel(c)
        \/ Initialize(c)
        \/ Destroy(c)
        \/ DetectionSessionCreated(c)
        \/ RecognitionSessionCreated(c)
        \/ DetectionSessionReleased(c)
        \/ RecognitionSessionReleased(c)
SpecLife == InitLife /\ [][LifeNext]_vars

\* RecognitionService.run on its own.
InitRec == RecInit /\ CtcIdle /\ SkewIdle /\ GeomIdle /\ LifeIdle /\ OrderIdle /\ LineIdle /\ PassIdle
RecNext ==
    \/ RecognitionRunStart
    \/ \E k \in 1..Len(taskPc) : InferenceSettles(k)
    \/ RecognitionRunReturns
SpecRec == InitRec /\ [][RecNext]_vars

\* One call of recognize().
Init == PipeInit /\ CtcIdle /\ SkewIdle /\ LifeIdle /\ OrderIdle /\ LineIdle /\ PassIdle
Next ==
    \/ Recognize
    \/ InitRuntimeSettles
    \/ DetectionCanvasPrepared
    \/ SkewInferenceSettles
    \/ MainInferenceSettles
    \/ RecognitionRunStart
    \/ \E k \in 1..Len(taskPc) : InferenceSettles(k)
    \/ RecognitionRunReturns
    \/ RecognizeReturns
Spec == Init /\ [][Next]_vars

\* The order of two boxes through detection and recognition.
InitOrder ==
    /\ OrderInit
    /\ CtcIdle /\ SkewIdle /\ GeomIdle /\ LifeIdle /\ PipeIdle /\ LineIdle /\ PassIdle
OrderNext == ExtractBoxes \/ LegacySortDetectedBoxes \/ SortResultsByReadingOrder
SpecOrder == InitOrder /\ [][OrderNext]_vars

\* processRecognition on its own.
InitLine ==
    /\ LineInit
    /\ CtcIdle /\ SkewIdle /\ GeomIdle /\ LifeIdle /\ PipeIdle /\ OrderIdle /\ PassIdle
LineNext == ProcessRecognition
SpecLine == InitLine /\ [][LineNext]_vars

\* calculateSkewAngle on its own.
InitPass ==
    /\ PassInit
    /\ CtcIdle /\ SkewIdle /\ GeomIdle /\ LifeIdle /\ PipeIdle /\ OrderIdle
    /\ LineIdle
PassNext == CalculateSkewAngle
SpecPass == InitPass /\ [][PassNext]_vars

(***************************************************************************)
(* Claims about the decoder                                                *)
(***************************************************************************)
\* The first maximum of timestep t's row is class k.
ArgmaxIs(t, k) ==
    /\ k < numClasses
    /\ \A c \in 0..(numClasses - 1) :
          /\ logits[t * numClasses + c + 1] <= logits[t * numClasses + k + 1]
          /\ c < k => logits[t * numClasses + c + 1] < logits[t * numClasses + k + 1]

\* Every timestep of a sequence of N > 1 timesteps has the same argmax k.
RepeatedArgmax(k) ==
    /\ sequenceLength > 1
    /\ \A t \in 0..(sequenceLength - 1) : ArgmaxIs(t, k)

\* C8 as stated: a non-blank argmax index repeated N > 1 times decodes to
\* exactly one character.
C8_ExactlyOneCharacter ==
    \A k \in 1..(MaxClasses - 1) :
        (ctcPc = "done" /\ RepeatedArgmax(k)) => Len(decodedText) = 1

\* C8 amended: a non-blank argmax index k repeated N > 1 times is emitted at
\* most once, never N times: the text is dictionary[k] when k is a dictionary
\* index other than the last, one space when k is the last index and that
\* entry is not "<unk>", and empty when k is the last index holding "<unk>"
\* or k lies outside the dictionary.
C8_RepeatCollapsesToOneEmission ==
    \A k \in 1..(MaxClasses - 1) :
        (ctcPc = "done" /\ RepeatedArgmax(k)) =>
            decodedText =
                IF k >= Len(charDict) THEN ""
                ELSE IF k < Len(charDict) - 1 THEN charDict[k + 1]
                ELSE IF charDict[k + 1] = UNK_TOKEN THEN "" ELSE " "

\* A decoded run of three timesteps that all predict the in-dictionary,
\* non-last class 1.
C8_Witness ==
    /\ ctcPc = "done"
    /\ sequenceLength = 3
    /\ Len(charDict) = 3
    /\ RepeatedArgmax(1)
    /\ decodedText = "a"

\* C9: a logits sequence whose argmax is the blank index at every timestep
\* decodes to the empty string, for any length and any dictionary.
C9_AllBlankDecodesEmpty ==
    (ctcPc = "done" /\ \A t \in 0..(sequenceLength - 1) : ArgmaxIs(t, BLANK_INDEX))
        => decodedText = ""

\* A decoded all-blank sequence of at least two timesteps.
C9_Witness ==
    /\ ctcPc = "done"
    /\ sequenceLength >= 2
    /\ \A t \in 0..(sequenceLength - 1) : ArgmaxIs(t, BLANK_INDEX)
    /\ decodedText = ""

(***************************************************************************)
(* Claims about the skew estimator                                         *)
(***************************************************************************)
\* C4: the skew angle the consensus returns lies within [-20, 20] degrees,
\* for every (empty or non-empty) list of weighted measurements.
C4_AngleWithinRange ==
    skewPc = "done" =>
        /\ FracLeq(Frac(minAngle, 1), consensusAngle)
        /\ FracLeq(consensusAngle, Frac(maxAngle, 1))

(***************************************************************************)
(* Claims about the box geometry                                           *)
(***************************************************************************)
\* C10: every Box convertToOriginalCoordinates returns has 0 <= x, 0 <= y,
\* x + width <= originalWidth and y + height <= originalHeight.
C10_BoxWithinOriginal ==
    geomPc = "done" =>
        \A i \in 1..Len(finalBoxes) :
            /\ 0 <= finalBoxes[i].x
            /\ 0 <= finalBoxes[i].y
            /\ finalBoxes[i].x + finalBoxes[i].width <= originalWidth
            /\ finalBoxes[i].y + finalBoxes[i].height <= originalHeight

\* A padded rect whose scaled width would reach past the original image was
\* converted, and the clamp cut it to the image's right edge.
C10_Witness ==
    /\ geomPc = "done"
    /\ \E i \in 1..Len(finalBoxes) :
          /\ Round(paddedRects[i].width * input.ratioDen, input.ratioNum)
                > originalWidth - finalBoxes[i].x
          /\ finalBoxes[i].width > 0
          /\ finalBoxes[i].x + finalBoxes[i].width = originalWidth

(***************************************************************************)
(* Claims about the service's life cycle                                   *)
(***************************************************************************)
\* C5: a session the service created stays referenced by the service until
\* it is released: no field is overwritten by a newly created session while
\* the session it held is still open.
C5_SessionsReleasedBeforeDropped ==
    \A id \in 1..Len(sessions) :
        sessions[id] = "open" => id \in {detectionSession, recognitionSession}

(***************************************************************************)
(* Claims about recognize() and the two services' run                      *)
(***************************************************************************)
\* DetectionService.run has returned to its caller.
DetectionReturned == pc \in {"detected", "recognizing", "recognized", "done"}

\* RecognitionService.run has returned what it computed from the boxes.
RecognitionReturned == pc \in {"recognized", "done"} /\ ~canvasFailed

Succeeded ==
    { i \in 1..Len(detection) : recOutcomes[i] \in {"tensorA", "tensorAB"} }

\* The result processBox gives for the i-th box of the list.
ResultOf(i) == processBox(detection[i], recOutcomes[i]).value

\* How often r occurs in the sequence s.
Count(s, r) == Cardinality({ j \in 1..Len(s) : s[j] = r })

\* C2: RecognitionService.run returns exactly one result for every valid box
\* whose processing did not fail, and none for the others; a failing box
\* (zero-dimension crop, missing output tensor, inference error) never
\* aborts the run.
C2_OneResultPerSucceedingBox ==
    RecognitionReturned =>
        /\ Len(recognition) = Cardinality(Succeeded)
        /\ \A i \in Succeeded :
              Count(recognition, ResultOf(i)) =
                  Cardinality({ j \in Succeeded : ResultOf(j) = ResultOf(i) })

\* run returned the one result of a list of two boxes whose first box failed
\* in the inference.
C2_Witness ==
    /\ RecognitionReturned
    /\ Len(detection) = 2
    /\ recOutcomes[1] = "throw"
    /\ recOutcomes[2] = "tensorAB"
    /\ recognition = << [text |-> "ab", box |-> detection[2]] >>

\* The results of the succeeding boxes in the order of the box list.
RECURSIVE ResultsInListOrder(_)
ResultsInListOrder(i) ==
    IF i > Len(detection) THEN <<>>
    ELSE IF i \in Succeeded THEN <<ResultOf(i)>> \o ResultsInListOrder(i + 1)
    ELSE ResultsInListOrder(i + 1)

\* C3: for a fixed image and box list the list run returns is the same for
\* every order in which the per-box tasks complete: it is the reading-order
\* sort of the results taken in the order of the box list.
C3_ResultIndependentOfCompletionOrder ==
    RecognitionReturned =>
        recognition = sortResultsByReadingOrder(ResultsInListOrder(1))

\* Two boxes the comparator does not tell apart, the second done first: run
\* still returned them in the order of the box list.
C3_Witness ==
    /\ RecognitionReturned
    /\ completionOrder = <<2, 1>>
    /\ Len(recognition) = 2
    /\ CompareReadingOrder(recognition[1], recognition[2]) = 0
    /\ recognition[1].box = detection[1]
    /\ recognition[1].box # recognition[2].box

\* c is a number of JavaScript, neither NaN nor undefined.
IsNumber(c) == c.kind = "number"

\* C6 as stated: every recognized item has a numeric confidence in [0, 1],
\* and the overall confidence is greater than 0 when items exist.
C6_ConfidenceWithinUnitInterval ==
    (pc = "done" /\ Len(recognition) > 0) =>
        /\ \A i \in 1..Len(recognition) :
              LET c == ConfidenceOf(recognition[i])
              IN IsNumber(c) /\ 0 <= c.num /\ c.num <= c.den
        /\ IsNumber(result.confidence)
        /\ result.confidence.num > 0

\* The items of the grouped view, line after line.
RECURSIVE Flattened(_)
Flattened(lines) ==
    IF lines = <<>> THEN <<>> ELSE Head(lines) \o Flattened(Tail(lines))

\* C7: for the same recognition input the flattened view (results) and the
\* grouped view (lines) hold the same items, the same text and the same
\* confidence.
C7_FlattenedAgreesWithGrouped ==
    (pc = "done" /\ flatten) =>
        /\ Len(result.results) = Len(Flattened(processed.lines))
        /\ result.results = Flattened(processed.lines)
        /\ result.text = processed.text
        /\ result.confidence = processed.confidence

\* A flattened result of two items that the grouped view puts on two lines.
C7_Witness ==
    /\ pc = "done"
    /\ flatten
    /\ Len(result.results) = 2
    /\ Len(processed.lines) = 2
    /\ result.text = "a\nab"

(***************************************************************************)
(* Claims about the detection post-processing                              *)
(***************************************************************************)
\* C11: every box the detection returns is more than 5 wide and more than 5
\* tall; a final box that is 5 or less wide or tall after scaling back to
\* the original coordinates is not among the boxes returned.
C11_ReturnedBoxesExceedMinSide ==
    geomPc = "done" =>
        /\ \A i \in 1..Len(boxes) :
              boxes[i].width > MIN_BOX_SIDE /\ boxes[i].height > MIN_BOX_SIDE
        /\ \A i \in 1..Len(finalBoxes) :
              (finalBoxes[i].width <= MIN_BOX_SIDE \/ finalBoxes[i].height <= MIN_BOX_SIDE)
                  => \A j \in 1..Len(boxes) : boxes[j] # finalBoxes[i]

\* Two contours passed the area test; the final box of one is too narrow
\* and was dropped, the other was returned.
C11_Witness ==
    /\ geomPc = "done"
    /\ Len(finalBoxes) = 2
    /\ Len(boxes) = 1
    /\ \E i \in 1..2 : finalBoxes[i].width <= MIN_BOX_SIDE

(***************************************************************************)
(* Claims about the detection run inside recognize()                       *)
(***************************************************************************)
\* C12: when the detection inference of run gives no output tensor, run
\* returns an empty box list without throwing, and recognize() resolves
\* with the empty result: text "", no lines or results, confidence 0.
C12_NoOutputYieldsEmptyResult ==
    detectionExit = "noOutput" =>
        /\ DetectionReturned
        /\ ~detectionThrew
        /\ detection = <<>>
        /\ pc \in {"recognized", "done"} => recognition = <<>>
        /\ pc = "done" =>
              /\ result.text = ""
              /\ result.confidence = Num(0, 1)
              /\ IF flatten THEN result.results = <<>> ELSE result.lines = <<>>

\* recognize() has resolved with the grouped empty result after the
\* detection session gave no output tensor.
C12_Witness ==
    /\ detectionExit = "noOutput"
    /\ pc = "done"
    /\ ~flatten
    /\ result = [text |-> "", lines |-> <<>>, confidence |-> Num(0, 1)]

\* A step of RecognitionService.run has been taken.
RecognitionStarted ==
    \/ pc \in {"recognizing", "recognized", "done"}
    \/ validBoxes # <<>>
    \/ taskPc # <<>>
    \/ completionOrder # <<>>

\* C13: within one recognize() call no per-box recognition step starts
\* before the detection run has returned its box list: once a recognition
\* step has been taken, run has returned, no detection inference is
\* pending, and the boxes being processed are the valid ones of that list.
C13_DetectionCompletesBeforeRecognition ==
    RecognitionStarted =>
        /\ detectionExit # "none"
        /\ pc \in {"recognizing", "recognized", "done"}
        /\ ~canvasFailed => validBoxes = filterValidBoxes(detection)
        /\ detectionExit = "boxes" => detection = boxes

\* Two detected boxes whose recognition inferences are both pending.
C13_Witness ==
    /\ pc = "recognizing"
    /\ detectionExit = "boxes"
    /\ Len(detection) = 2
    /\ taskPc = <<"inference", "inference">>

\* C14 as stated: a service constructed without detection.autoDeskew has
\* auto-deskew enabled: a detection run that reaches its main inference has
\* performed the skew-estimation pass and the rotation before it.
C14_AutoDeskewEnabledByDefault ==
    (userAutoDeskew = "unset" /\ pc = "mainInference") =>
        /\ skewOutput \in {"tensor", "missing"}
        /\ canvasToProcess = "rotated"
        /\ \E i \in 1..Len(detectionSteps) : detectionSteps[i].step = "rotate"

(***************************************************************************)
(* Claims about the detection preprocessing                                *)
(***************************************************************************)
\* The canvas has been preprocessed under SpecGeom.
Preprocessed == geomPc \in {"postprocess", "done"}

\* n is an integer nearest to the fraction p / q (q > 0).
IsNearest(n, p, q) == 2 * Abs(n * q - p) <= q

\* C15: when max(w, h) <= maxSideLength the ratio is 1 and both sides are
\* returned unchanged; otherwise the longer returned side equals
\* maxSideLength and both returned sides are the original sides scaled by
\* maxSideLength / longerSide and rounded to the nearest integer.
C15_ResizeDimensions ==
    Preprocessed =>
        LET longer == Max(originalWidth, originalHeight)
        IN IF longer <= maxSideLength
           THEN /\ input.ratioNum = input.ratioDen
                /\ input.resizeW = originalWidth
                /\ input.resizeH = originalHeight
           ELSE /\ Max(input.resizeW, input.resizeH) = maxSideLength
                /\ input.ratioNum * longer = input.ratioDen * maxSideLength
                /\ IsNearest(input.resizeW, originalWidth * maxSideLength, longer)
                /\ IsNearest(input.resizeH, originalHeight * maxSideLength, longer)

\* A 40 x 22 canvas resized for maxSideLength 32: 22 * 32 / 40 = 17.6
\* rounds to 18.
C15_Witness ==
    /\ Preprocessed
    /\ originalWidth = 40
    /\ originalHeight = 22
    /\ maxSideLength = 32
    /\ input.resizeW = 32
    /\ input.resizeH = 18

\* C19: the padded width and height of the model input are each a multiple
\* of 32, at least the resized dimension and less than that dimension
\* plus 32.
C19_PaddedToMultipleOfStride ==
    Preprocessed =>
        /\ input.width % PAD_MULTIPLE = 0
        /\ input.height % PAD_MULTIPLE = 0
        /\ input.width >= input.resizeW
        /\ input.width < input.resizeW + PAD_MULTIPLE
        /\ input.height >= input.resizeH
        /\ input.height < input.resizeH + PAD_MULTIPLE

\* A resized width that is a multiple of 32 stays as it is while the
\* resized height, which is not, is padded to the next one.
C19_Witness ==
    /\ Preprocessed
    /\ input.resizeW = 32
    /\ input.width = 32
    /\ input.resizeH = 18
    /\ input.height = 32

(***************************************************************************)
(* Claims about the skew-angle consensus                                   *)
(***************************************************************************)
\* The measurements of allAngles within [minAngle, maxAngle].
InRange == SelectSeq(allAngles, LAMBDA a : a.angle >= minAngle /\ a.angle <= maxAngle)

\* The measurements that survive the filtering.
Survivors == FilteredAngles(allAngles, minAngle, maxAngle)

\* C16: whenever at least one measurement survives the filtering, a
\* measurement whose angle lies outside [-20, 20] has no part in the mean,
\* whatever its weight: the result is the weighted mean of the survivors
\* (their plain mean when their weights sum to 0), all of which lie in the
\* range, and so lies between two in-range measurements.  For
\* [{5, 1}, {5, 1}, {50, 100}] the result is 5.
C16_OutOfRangeExcludedFromMean ==
    /\ (skewPc = "done" /\ Len(Survivors) > 0) =>
          /\ \A i \in 1..Len(Survivors) :
                Survivors[i].angle >= minAngle /\ Survivors[i].angle <= maxAngle
          /\ FracEq(consensusAngle,
                    IF SumWeights(Survivors) = 0
                    THEN Frac(SumAngles(Survivors), Len(Survivors))
                    ELSE Frac(SumWeightedAngles(Survivors), SumWeights(Survivors)))
          /\ \E i, j \in 1..Len(InRange) :
                /\ FracLeq(Frac(InRange[i].angle, 1), consensusAngle)
                /\ FracLeq(consensusAngle, Frac(InRange[j].angle, 1))
    /\ (skewPc = "done" /\ allAngles = << [angle |-> 5, weight |-> 1],
                                          [angle |-> 5, weight |-> 1],
                                          [angle |-> 50, weight |-> 100] >>) =>
          FracEq(consensusAngle, Frac(5, 1))

\* The consensus of [{5, 1}, {5, 1}, {50, 100}] has been computed.
C16_Witness ==
    /\ skewPc = "done"
    /\ allAngles = << [angle |-> 5, weight |-> 1],
                      [angle |-> 5, weight |-> 1],
                      [angle |-> 50, weight |-> 100] >>
    /\ consensusAngle.num = 5 * consensusAngle.den

(***************************************************************************)
(* Claims about the reading order                                          *)
(***************************************************************************)
\* The claim's words: a and b are on the same line.
SameLine(a, b) == 4 * Abs(a.y - b.y) < a.height + b.height

\* a may stand before b: by ascending x on one line, by ascending y otherwise.
InReadingOrder(a, b) == IF SameLine(a, b) THEN a.x <= b.x ELSE a.y <= b.y

\* The boxes of a list of results.
BoxesOf(rs) == [i \in 1..Len(rs) |-> rs[i].box]

\* The two boxes of the claim.
LeftBox == [x |-> 0, y |-> 0, width |-> 10, height |-> 10]
RightBox == [x |-> 20, y |-> 1, width |-> 10, height |-> 10]

\* What the comparator makes of two boxes given in the order a, b.
OrderedPair(a, b) == IF InReadingOrder(a, b) THEN <<a, b>> ELSE <<b, a>>

RECURSIVE Join(_, _)
Join(ss, sep) ==
    IF ss = <<>> THEN ""
    ELSE IF Len(ss) = 1 THEN ss[1]
    ELSE ss[1] \o sep \o Join(Tail(ss), sep)

\* The texts of the items of a line.
TextsOf(line) == [i \in 1..Len(line) |-> line[i].text]

\* C18: the text recognize() returns is the item texts of each line
\* joined by one space, the lines in order joined by one newline, the lines
\* holding every item of the recognition list; an empty list gives "".
C18_TextJoinsLines ==
    pc = "done" =>
        /\ result.text =
              Join([l \in 1..Len(processed.lines) |->
                       Join(TextsOf(processed.lines[l]), " ")], "\n")
        /\ Flattened(processed.lines) = recognition
        /\ recognition = <<>> => result.text = ""

\* A grouped result whose first line holds two items, joined by a space.
C18_Witness ==
    /\ pc = "done"
    /\ ~flatten
    /\ Len(result.lines) >= 1
    /\ Len(result.lines[1]) = 2
    /\ result.text = "a ab"

(***************************************************************************)
(* Claims about the passes of DetectionService.run                         *)
(***************************************************************************)
\* The steps of a run that deskews, and of one that does not.
DeskewedRunSteps ==
    << Step("preprocess", "image"), Step("inference", "image"),
       Step("rotate", "image"),
       Step("preprocess", "rotated"), Step("inference", "rotated"),
       Step("postprocess", "rotated") >>
PlainRunSteps ==
    << Step("preprocess", "image"), Step("inference", "image"),
       Step("postprocess", "image") >>

IsPrefix(s, t) == Len(s) <= Len(t) /\ s = SubSeq(t, 1, Len(s))

HasRotated ==
    \/ canvasToProcess = "rotated"
    \/ \E i \in 1..Len(detectionSteps) : detectionSteps[i].step = "rotate"

\* C20 as stated: every run that has returned made the skew inference, the
\* rotation, the main inference on the rotated image and the
\* postprocessing, with two engine calls, when autoDeskew is true, and one
\* engine call and no rotation when it is false.
C20_EveryRunMakesItsPasses ==
    detectionExit # "none" =>
        /\ userAutoDeskew = "true" =>
              detectionSteps = DeskewedRunSteps /\ engineCalls = 2
        /\ userAutoDeskew = "false" =>
              detectionSteps = PlainRunSteps /\ engineCalls = 1 /\ ~HasRotated

\* C20 amended: a run that returns the boxes of its postprocessing made
\* exactly those steps in that order, with two engine calls when autoDeskew
\* is true and one and no rotation when it is false; a run that returns
\* early (a canvas or inference error, no output tensor) made a prefix of
\* them, with at most that many engine calls, and never rotates when
\* autoDeskew is false.
C20_PassesOfDetectionRun ==
    /\ userAutoDeskew = "true" =>
          /\ IsPrefix(detectionSteps, DeskewedRunSteps)
          /\ engineCalls <= 2
          /\ detectionExit = "boxes" =>
                /\ detectionSteps = DeskewedRunSteps
                /\ engineCalls = 2
                /\ canvasToProcess = "rotated"
    /\ userAutoDeskew = "false" =>
          /\ IsPrefix(detectionSteps, PlainRunSteps)
          /\ engineCalls <= 1
          /\ ~HasRotated
          /\ detectionExit = "boxes" =>
                detectionSteps = PlainRunSteps /\ engineCalls = 1

\* A deskewing run has returned the boxes found in the rotated image.
C20_Witness ==
    /\ userAutoDeskew = "true"
    /\ detectionExit = "boxes"
    /\ detectionSteps = DeskewedRunSteps
    /\ engineCalls = 2
    /\ Len(detection) > 0

(***************************************************************************)
(* Claims about what the decoder emits                                     *)
(***************************************************************************)
\* The argmax indices of the timesteps are exactly those of ks.
ArgmaxSequenceIs(ks) ==
    /\ sequenceLength = Len(ks)
    /\ \A t \in 0..(sequenceLength - 1) : ArgmaxIs(t, ks[t + 1])

\* k is a dictionary index that is neither the blank nor the last.
PlainIndex(k) == k # BLANK_INDEX /\ k < Len(charDict) - 1

\* C21: the argmax sequence k, blank, k (k a valid non-blank, non-last
\* index) decodes to dictionary[k] twice, the sequence k, k to it once.
C21_BlankSeparatesRepeats ==
    \A k \in 1..(MaxClasses - 1) :
        (ctcPc = "done" /\ PlainIndex(k)) =>
            /\ ArgmaxSequenceIs(<<k, BLANK_INDEX, k>>) =>
                  decodedText = charDict[k + 1] \o charDict[k + 1]
            /\ ArgmaxSequenceIs(<<k, k>>) => decodedText = charDict[k + 1]

\* The sequence 1, blank, 1 has been decoded to "aa".
C21_Witness ==
    /\ ctcPc = "done"
    /\ Len(charDict) = 3
    /\ ArgmaxSequenceIs(<<1, BLANK_INDEX, 1>>)
    /\ decodedText = "aa"

\* The argmax index of timestep t.
ArgmaxOf(t) == CHOOSE k \in 0..(numClasses - 1) : ArgmaxIs(t, k)

\* Timestep t's index is in the dictionary, not the blank, and not the
\* index of the timestep before it.
Emitting(t) ==
    /\ ArgmaxOf(t) # BLANK_INDEX
    /\ ArgmaxOf(t) < Len(charDict)
    /\ t > 0 => ArgmaxOf(t) # ArgmaxOf(t - 1)

\* What the claim has timestep t add to the text.
EmissionOf(t) ==
    IF ~Emitting(t) THEN ""
    ELSE IF ArgmaxOf(t) = Len(charDict) - 1
         THEN (IF charDict[ArgmaxOf(t) + 1] = "<unk>" THEN "" ELSE " ")
         ELSE charDict[ArgmaxOf(t) + 1]

RECURSIVE EmissionsUpTo(_)
EmissionsUpTo(n) == IF n = 0 THEN "" ELSE EmissionsUpTo(n - 1) \o EmissionOf(n - 1)

\* C22: an in-bounds, non-blank, non-repeated argmax index adds one space
\* when it is the dictionary's last index, nothing when that last entry is
\* "<unk>", and dictionary[index] verbatim otherwise; the decoded text is
\* these emissions in order.
C22_EmissionPerIndex ==
    ctcPc = "done" => decodedText = EmissionsUpTo(sequenceLength)

\* A plain entry followed by the dictionary's last index, emitted as a
\* space although the entry there is "b".
C22_Witness ==
    /\ ctcPc = "done"
    /\ charDict = <<"_", "a", "b">>
    /\ ArgmaxSequenceIs(<<1, 2>>)
    /\ decodedText = "a "

(***************************************************************************)
(* Claims about the grouping into lines                                    *)
(***************************************************************************)
\* The number of items in the first l lines.
RECURSIVE ItemsInFirst(_, _)
ItemsInFirst(lines, l) ==
    IF l = 0 THEN 0 ELSE ItemsInFirst(lines, l - 1) + Len(lines[l])

\* The line that holds the i-th item of the input.
LineOfItem(lines, i) ==
    CHOOSE l \in 1..Len(lines) :
        ItemsInFirst(lines, l - 1) < i /\ i <= ItemsInFirst(lines, l)

\* The items before the i-th that are in the line of the (i-1)-th.
AlreadyInLine(lines, i) ==
    { j \in 1..(i - 1) : LineOfItem(lines, j) = LineOfItem(lines, i - 1) }

RECURSIVE HeightsOver(_, _)
HeightsOver(items, js) ==
    IF js = {} THEN 0
    ELSE LET j == CHOOSE k \in js : TRUE
         IN items[j].box.height + HeightsOver(items, js \ {j})

\* |y_i - y_(i-1)| <= 0.5 * (mean height of the boxes already in the line),
\* with both sides multiplied by twice the number of those boxes.
WithinHalfMeanHeight(items, lines, i) ==
    2 * Abs(items[i].box.y - items[i - 1].box.y) * Cardinality(AlreadyInLine(lines, i))
        <= HeightsOver(items, AlreadyInLine(lines, i))

\* C23: no line is empty, the lines concatenated are the input, and item i
\* is in the line of item i-1 exactly when its vertical gap to item i-1 is
\* at most half the mean height of the boxes already in that line, so that
\* the mean starts again from the first box of each line.
C23_LinesGroupByHalfMeanHeight ==
    linePc = "done" =>
        /\ \A l \in 1..Len(lineResult.lines) : Len(lineResult.lines[l]) > 0
        /\ Flattened(lineResult.lines) = lineItems
        /\ \A i \in 2..Len(lineItems) :
              (LineOfItem(lineResult.lines, i) = LineOfItem(lineResult.lines, i - 1))
                  <=> WithinHalfMeanHeight(lineItems, lineResult.lines, i)

\* Boxes of heights 12 and 4 share a line, mean height 8, and a third box
\* 3 below the second joins them: its gap is within 4 but not within half
\* the second box's height.
C23_Witness ==
    /\ linePc = "done"
    /\ Len(lineItems) = 3
    /\ Len(lineResult.lines) = 1
    /\ lineItems[1].box.height = 12
    /\ lineItems[2].box.height = 4
    /\ Abs(lineItems[3].box.y - lineItems[2].box.y) = 3

(***************************************************************************)
(* Claims about the padding of contour rectangles                          *)
(***************************************************************************)
\* The padded rectangle p of the contour rectangle r: it is inside
\* [0, maxW] x [0, maxH], it contains r, and each of its edges is moved
\* outwards by the padding computed from r's height (0.6 of it to the left
\* and right, 0.4 of it up and down, rounded) or as far as the image goes.
PaddedWithin(r, p, maxW, maxH) ==
    LET horizontal == Round(6 * r.height, 10)
        vertical == Round(4 * r.height, 10)
    IN /\ p.x >= 0
       /\ p.y >= 0
       /\ p.x + p.width <= maxW
       /\ p.y + p.height <= maxH
       /\ p.x <= r.x
       /\ p.y <= r.y
       /\ p.x + p.width >= r.x + r.width
       /\ p.y + p.height >= r.y + r.height
       /\ r.x - p.x = Min(horizontal, r.x)
       /\ r.y - p.y = Min(vertical, r.y)
       /\ (p.x + p.width) - (r.x + r.width) = Min(horizontal, maxW - (r.x + r.width))
       /\ (p.y + p.height) - (r.y + r.height) = Min(vertical, maxH - (r.y + r.height))

\* C24: for every contour rectangle inside the padded image, the padded
\* rectangle lies inside the padded image and contains the contour's, both
\* paddings being computed from the rectangle's height.
C24_PaddedRectInsideImage ==
    geomPc = "done" =>
        \A i \in 1..Len(paddedRects) :
            PaddedWithin(LargeEnough(contours)[i], paddedRects[i],
                         input.width, input.height)

\* A wide, low rectangle at the left and top edge is padded by 4 to the
\* right (0.6 of its height 6) and clamped at 0.
C24_Witness ==
    /\ geomPc = "done"
    /\ Len(paddedRects) > 0
    /\ LargeEnough(contours)[1] = [x |-> 0, y |-> 0, width |-> 22, height |-> 6]
    /\ paddedRects[1] = [x |-> 0, y |-> 0, width |-> 26, height |-> 8]

(***************************************************************************)
(* Claims about the comparator as an order                                 *)
(***************************************************************************)
\* Three results whose boxes step up from left to right: a low box at the
\* left, a tall one in the middle, a low one at the right.
ChainA == [text |-> "a", box |-> [x |-> 0, y |-> 5, width |-> 10, height |-> 4]]
ChainB == [text |-> "a", box |-> [x |-> 20, y |-> 3, width |-> 10, height |-> 12]]
ChainC == [text |-> "a", box |-> [x |-> 40, y |-> 0, width |-> 10, height |-> 4]]

\* a is before b and b before c, but a is after c.
IntransitiveChain(a, b, c) ==
    /\ CompareReadingOrder(a, b) < 0
    /\ CompareReadingOrder(b, c) < 0
    /\ CompareReadingOrder(a, c) > 0

\* C25: the comparator is not transitive: the staggered boxes ChainA,
\* ChainB, ChainC are in order pairwise along the chain while the first is
\* after the last; and whenever RecognitionService returns three results
\* that form such a chain, its first result compares after its last.
C25_ComparatorNotTransitive ==
    /\ IntransitiveChain(ChainA, ChainB, ChainC)
    /\ {ChainA, ChainB, ChainC} \subseteq ItemResults
    /\ (linePc = "done" /\ lineItems = <<ChainA, ChainB, ChainC>>) =>
          CompareReadingOrder(lineItems[1], lineItems[3]) > 0

\* The sort has returned the chain in the order a, b, c, whose first result
\* the comparator puts after its last.
C25_Witness ==
    /\ linePc = "done"
    /\ Len(lineItems) = 3
    /\ IntransitiveChain(lineItems[1], lineItems[2], lineItems[3])

(***************************************************************************)
(* Claims about the skew pass                                              *)
(***************************************************************************)
\* rect is skipped for its area or kept out for its aspect ratio.
NotATextRegion(rect) ==
    \/ rect.width * rect.height < 20
    \/ ~(5 * rect.width > rect.height /\ rect.width < 10 * rect.height)

NoRegionPasses(cs) == \A i \in 1..Len(cs) : NotATextRegion(cs[i])

\* C26: calculateSkewAngle returns 0 when the model output is absent, when
\* no region passes the area and aspect filter, and when the three methods
\* produce no measurement.
C26_NoMeasurementGivesZero ==
    (/\ passPc = "done"
     /\ ~passOutput \/ NoRegionPasses(passContours) \/ Len(passAngles) = 0)
        => passResult = Frac(0, 1)

\* The output is there and the methods would measure 5 degrees, but the
\* only contours are too tall or too small to be text regions.
C26_Witness ==
    /\ passPc = "done"
    /\ passOutput
    /\ Len(passContours) > 0
    /\ NoRegionPasses(passContours)
    /\ passAngles = << [angle |-> 5, weight |-> 1] >>
    /\ passResult = Frac(0, 1)

(***************************************************************************)
(* Claims about the singleton's initialization                             *)
(***************************************************************************)
\* C27: a getInstance() call that has resolved has resolved to an instance
\* whose isInitialized() is true, however the calls interleave.  (The
\* session fields are never set back to null, so that isInitialized() stays
\* true once it is.)
C27_GetInstanceResolvesInitialized ==
    \A c \in Callers :
        (callOp[c] = "getInstance" /\ callResult[c] = "returned") => isInitialized

(***************************************************************************)
(* Claims about the image the boxes are cropped from                       *)
(***************************************************************************)
\* The canvas the boxes are cropped from has the coordinates of the canvas
\* they were detected on: it is that canvas, or that canvas is the image
\* rotated by zero degrees.
CropsInDetectionCoordinates ==
    \/ cropCanvas = canvasToProcess
    \/ FracEq(skewAngle, Frac(0, 1))

\* C28: when RecognitionService crops boxes that DetectionService found
\* with autoDeskew set, it crops them from the rotated image they were
\* detected on, never from the unrotated input.
C28_CropsFromDetectionImage ==
    (/\ entry = "recognize"
     /\ userAutoDeskew = "true"
     /\ cropCanvas # "none"
     /\ Len(validBoxes) > 0)
        => CropsInDetectionCoordinates

(***************************************************************************)
(* Claims about the sessions the service holds                             *)
(***************************************************************************)
\* No call is pending.
Quiescent == \A c \in Callers : callPc[c] = "idle"

\* The session a field holds is loaded and not released.
Usable(id) == id # 0 /\ sessions[id] = "open"

\* C29: once every call has completed, isInitialized() is true only if
\* both sessions are loaded and not released; so it is false after
\* destroy(), and a getInstance() that returns then has not handed out a
\* destroyed instance.
C29_InitializedMeansSessionsUsable ==
    (Quiescent /\ isInitialized) =>
        Usable(detectionSession) /\ Usable(recognitionSession)

\* The step in which the initialize of caller c throws.
InitializeThrows(c) ==
    /\ callPc[c] \in {"awaitDetection", "awaitRecognition"}
    /\ callResult'[c] = "threw"

\* C30: an initialize() that throws leaves the detection session, the
\* recognition session and the dictionary as they were; in particular the
\* step in which it throws changes none of them.
C30_FailedInitializeChangesNothing ==
    [][\A c \in Callers :
          InitializeThrows(c) =>
              UNCHANGED <<detectionSession, recognitionSession, dictionary>>]_vars

====
